---- MODULE Spec2Model ----
(***************************************************************************)
(* Model of the monitoring engine (MonitorEngine, PagePool and the         *)
(* snapshot store of src/unnamed/part_006).                                *)
(*                                                                         *)
(* JavaScript objects have identity: rebuildRuntimeTasks creates a fresh   *)
(* RuntimeTask (and a fresh status entry) for every task, while timers and *)
(* executions in flight keep the object they captured.  The model keeps    *)
(* the task objects in `heap`; `tasks` maps a task id to the object that   *)
(* is currently in the registry.  A RuntimeTask and its RuntimeTaskStatus  *)
(* are always created by the same rebuild and looked up together, so the   *)
(* status fields (st...) live in the same heap record.                     *)
(*                                                                         *)
(* Every action is one run-to-completion turn of the event loop: a public  *)
(* method, a timer callback, or the continuation of an execution after one *)
(* of its awaits.                                                          *)
(***************************************************************************)
EXTENDS Integers, Sequences, FiniteSets, TLC

\* ------------------------------------------------------------------ bounds
MaxRuns == 2           \* executions started in one behaviour
MaxOps == 1           \* calls of public methods other than start() in one behaviour
MaxChanges == 2       \* change records appended in one behaviour
MaxFailures == 1      \* failureCount up to which the page may fail again
MaxTokens == 3        \* tokens of each of the two sequences given to the word diff
MaxBatch == 2         \* resources saved by one call of downloadChangedResources
MaxPages == 3         \* pages that the browser of a page pool opens in one behaviour
MaxSaves == 2         \* calls of saveTaskBaselineAndState in one behaviour
RenderCap == 2        \* a small cap on rendered characters, tried besides MAX_RENDER_CHARS

\* ------------------------------------------------------- program constants
MAX_CHANGE_RECORDS == 300
DEFAULT_MAX_CONCURRENCY == 3
MAX_FAILURE_COUNT == 6
MAX_COMPARE_CHARS == 120000
MAX_RENDER_CHARS == 90000

\* ------------------------------------------------------------ value spaces
UiId == "ui-1"
LegacyId == "legacy-1"
Legacy2Id == "legacy-2"
Ids == {UiId, LegacyId, Legacy2Id}

NoText == <<>>
TextX == <<"x">>
TextF == <<"F">>

NoHash == <<>>
NoKeyword == <<>>
NoResources == <<>>

Dirs == {"d1", "d2", "d3"}
LegacyDir == "d1"

\* the interval of the tasks, in seconds
IntervalSec == 60

\* the task list a legacy tasks module exports: one task that compares
\* resources and downloads them with extractResource (src/tasks.ts:53-65)
LegacyTask == [outputDir |-> LegacyDir, extractResource |-> TRUE]

\* a task list of two tasks without resources, each with its own directory
PlainTasks == << [outputDir |-> "d2", extractResource |-> FALSE],
                 [outputDir |-> "d3", extractResource |-> FALSE] >>

NoCfg == [present |-> FALSE, enabled |-> FALSE, outputDir |-> "d1", requiredKeyword |-> NoKeyword]

\* ------------------------------------------------------------------- state
VARIABLES
    running,            \* MonitorEngine.running
    runtimeOptions,     \* mode and configured maxConcurrency
    maxConcurrency,     \* effective limit
    uiTasks,            \* configuration of the built-in task
    legacyOptions,      \* task options loaded from the legacy module
    tasks,              \* registry: id -> heap index, 0 when absent
    heap,               \* RuntimeTask objects with their status entries
    runQueue,
    queuedIds,
    runningCount,
    execs,              \* executions in flight, in start order
    changes,            \* change log, newest first
    reports,            \* number of report files written
    disk,               \* persisted snapshot state per output directory
    browser,            \* "none", "launched" or "attached"
    browserManaged,
    pagePool,           \* the engine's current PagePool
    sessions,           \* open browser sessions that the engine created
    ops,                \* public method calls so far
    started,            \* executions started so far, per task id
    last                \* label of the step just taken

vars == <<running, runtimeOptions, maxConcurrency, uiTasks, legacyOptions, tasks, heap,
          runQueue, queuedIds, runningCount, execs, changes, reports, disk,
          browser, browserManaged, pagePool, sessions, ops, started, last>>

\* the engine's fields as one record, so that methods are operators on it
Eng ==
    [ running |-> running, runtimeOptions |-> runtimeOptions, maxConcurrency |-> maxConcurrency,
      uiTasks |-> uiTasks, legacyOptions |-> legacyOptions, tasks |-> tasks, heap |-> heap,
      runQueue |-> runQueue, queuedIds |-> queuedIds, runningCount |-> runningCount,
      execs |-> execs, changes |-> changes, reports |-> reports, disk |-> disk,
      browser |-> browser, browserManaged |-> browserManaged, pagePool |-> pagePool,
      sessions |-> sessions,
      started |-> started ]

\* ----------------------------------------------------------- pure helpers
Max(a, b) == IF a > b THEN a ELSE b
Min(a, b) == IF a < b THEN a ELSE b

\* sha256: injective, never the empty string
sha256(text) == <<"#">> \o text

LowerChar(c) ==
    IF c = "F" THEN "f" ELSE IF c = "X" THEN "x"
    ELSE IF c = "C" THEN "c" ELSE IF c = "O" THEN "o" ELSE IF c = "N" THEN "n" ELSE c
toLowerCase(text) == [i \in DOMAIN text |-> LowerChar(text[i])]

includes(text, sub) ==
    \E i \in 0..(Len(text) - Len(sub)) : SubSeq(text, i + 1, i + Len(sub)) = sub

\* normalizeRequiredKeyword followed by toLowerCase (createDescriptorFromOptions)
requiredKeywordLower(requiredKeyword) ==
    IF requiredKeyword = NoKeyword THEN NoKeyword ELSE toLowerCase(requiredKeyword)

normalizeMaxConcurrency(value, fallback) == IF value <= 0 THEN fallback ELSE Max(1, value)

EffectiveMaxConcurrency(opts) ==
    IF opts.mode = "attach" THEN 1
    ELSE normalizeMaxConcurrency(opts.maxConcurrency, DEFAULT_MAX_CONCURRENCY)

Range(seq) == {seq[i] : i \in DOMAIN seq}

RemoveAt(seq, i) == SubSeq(seq, 1, i - 1) \o SubSeq(seq, i + 1, Len(seq))

\* ------------------------------------------------------------ task objects
FreeObj ==
    [ id |-> UiId, outputDir |-> "d1", enabled |-> FALSE,
      requiredKeywordLower |-> NoKeyword, extractResource |-> FALSE,
      active |-> FALSE, timer |-> "none",
      lastText |-> NoText, lastResources |-> NoResources, stateLoaded |-> FALSE,
      lastTextHash |-> NoHash, failureCount |-> 0,
      blocked |-> FALSE, blockedReason |-> FALSE, blockedAt |-> FALSE,
      stRunning |-> FALSE, stQueued |-> FALSE, stBlocked |-> FALSE ]

createDescriptorFromOptions(id, enabled, outputDir, requiredKeyword, extractResource) ==
    [ FreeObj EXCEPT
        !.id = id, !.outputDir = outputDir, !.enabled = enabled,
        !.requiredKeywordLower = requiredKeywordLower(requiredKeyword),
        !.extractResource = extractResource ]

\* what an output directory holds: state.json ("absent", "unparsable" or
\* "json" with the version and fields it carries) and the baseline file
NoDiskState ==
    [stateFile |-> "absent", version |-> 1, textHash |-> NoHash, resources |-> NoResources,
     hasBaseline |-> FALSE, baseline |-> NoText]

NoPool == [live |-> FALSE, size |-> 0, totalPages |-> 0, idlePages |-> 0]

\* the sessions that connect() and launch() have returned and that have been
\* neither closed nor disconnected, by kind, and whether browser.close() was
\* ever called on a session obtained by connect()
NoSessions == [launched |-> 0, attached |-> 0, attachedClosed |-> FALSE]

IdOrder == <<UiId, LegacyId, Legacy2Id>>

NoExec ==
    [ id |-> UiId, obj |-> 0, pc |-> "none",
      hasPage |-> FALSE,
      stale |-> FALSE,              \* the page's browser was torn down
      foreign |-> FALSE,            \* the page's pool is no longer the engine's
      attach |-> FALSE, text |-> NoText, res |-> NoResources,
      compared |-> FALSE,           \* a baseline existed when runTask returned
      textChanged |-> FALSE, shouldSave |-> FALSE, resourcesChanged |-> FALSE,
      baselineUpdated |-> FALSE, todo |-> NoResources,
      first |-> FALSE,              \* started with nothing persisted or loaded
      noBaseline |-> FALSE,         \* its loadTaskState returned no state
      recorded |-> 0,               \* change records this execution appended
      reported |-> 0 ]              \* report files this execution wrote

\* ----------------------------------------------- garbage collection of heap
\* An object survives while the registry, an execution or an armed timer
\* refers to it; of an object kept only by its timer, the callback uses
\* nothing but the id.  Surviving objects are renumbered in a fixed order
\* (registry, executions, timers), since heap positions carry no meaning.
IdRank(id) == IF id = UiId THEN 1 ELSE IF id = LegacyId THEN 2 ELSE 3
TimerRank(t) == IF t = "100ms" THEN 1 ELSE IF t = "250ms" THEN 2 ELSE IF t = "interval" THEN 3 ELSE 4
OrphanKey(t) == 100 * IdRank(t.id) + TimerRank(t.timer)

RECURSIVE AppendNew(_, _)
AppendNew(seq, more) ==
    IF more = <<>> THEN seq
    ELSE AppendNew(IF Head(more) \in Range(seq) THEN seq ELSE Append(seq, Head(more)), Tail(more))

RECURSIVE SortByKey(_, _)
SortByKey(set, h) ==
    IF set = {} THEN <<>>
    ELSE LET m == CHOOSE o \in set : \A p \in set :
                    \/ OrphanKey(h[o]) < OrphanKey(h[p])
                    \/ (OrphanKey(h[o]) = OrphanKey(h[p]) /\ o <= p)
         IN  <<m>> \o SortByKey(set \ {m}, h)

\* objects the registry refers to, then those only executions refer to
Captured(e) ==
    AppendNew(SelectSeq([k \in 1..Len(IdOrder) |-> e.tasks[IdOrder[k]]], LAMBDA o : o # 0),
              [i \in DOMAIN e.execs |-> e.execs[i].obj])

Orphans(e, captured) ==
    {o \in DOMAIN e.heap : e.heap[o].timer # "none" /\ o \notin Range(captured)}

Renumber(e, kept, order) ==
    LET index(o) == CHOOSE k \in DOMAIN order : order[k] = o
    IN  [e EXCEPT
            !.heap = [k \in DOMAIN order |->
                        IF k <= kept THEN e.heap[order[k]]
                        ELSE [FreeObj EXCEPT !.id = e.heap[order[k]].id,
                                             !.timer = e.heap[order[k]].timer]],
            !.tasks = [id \in Ids |-> IF e.tasks[id] = 0 THEN 0 ELSE index(e.tasks[id])],
            !.execs = [i \in DOMAIN e.execs |-> [e.execs[i] EXCEPT !.obj = index(@)]]]

CollectFrom(e, captured) ==
    Renumber(e, Len(captured), captured \o SortByKey(Orphans(e, captured), e.heap))

Collect(e) == CollectFrom(e, Captured(e))

\* --------------------------------------------------------------- scheduler
\* (first the variant without lines 1004-1006: the id leaves queuedIds and stays
\* in runQueue)
removeFromQueueKeepingEntry(e, id) ==
    LET o == e.tasks[id]
    IN  [e EXCEPT
            !.queuedIds = @ \ {id},
            !.heap = IF o # 0 THEN [@ EXCEPT ![o].stQueued = FALSE] ELSE @]

removeFromQueue(e, id) ==
    LET o == e.tasks[id]
    IN  [e EXCEPT
            !.queuedIds = @ \ {id},
            !.runQueue = SelectSeq(@, LAMBDA item : item # id),
            !.heap = IF o # 0 THEN [@ EXCEPT ![o].stQueued = FALSE] ELSE @]

\* lines 982-997 of scheduleTask, for the registry object o
Arm(e, o, delay) ==
    IF ~e.heap[o].enabled \/ e.heap[o].blocked
    THEN [e EXCEPT !.heap[o].stQueued = FALSE]
    ELSE [e EXCEPT !.heap[o].stQueued = FALSE, !.heap[o].timer = delay]

scheduleTask(e, id, delay) ==
    IF ~e.running THEN e
    ELSE IF e.tasks[id] = 0 THEN e
    ELSE Arm(removeFromQueue([e EXCEPT !.heap[e.tasks[id]].timer = "none"], id), e.tasks[id], delay)

\* the synchronous prefix of executeTaskInternal and checkTask, up to the
\* first await: the task is marked active and its state load is started
StartExecution(e, id) ==
    LET o == e.tasks[id]
        t == e.heap[o]
        noneInFlight == \A i \in DOMAIN e.execs : e.execs[i].id # id
        x == [NoExec EXCEPT
                !.id = id, !.obj = o,
                !.pc = IF t.stateLoaded THEN "browser" ELSE "load",
                !.first = (e.disk[t.outputDir].textHash = NoHash /\ t.lastTextHash = NoHash
                           /\ noneInFlight)]
    IN  [e EXCEPT
            !.heap[o].active = TRUE,
            !.heap[o].stRunning = TRUE,
            !.heap[o].stQueued = FALSE,
            !.heap[o].stateLoaded = TRUE,
            !.execs = Append(@, x),
            !.started[id] = @ + 1]

RECURSIVE drainQueue(_)
\* one round of the loop of drainQueue, id already shifted from the queue
Dispatch(e, id) ==
    LET o == e.tasks[id]
    IN  IF o = 0 THEN drainQueue(e)
        ELSE IF ~e.heap[o].enabled \/ e.heap[o].blocked \/ e.heap[o].active
        THEN drainQueue([e EXCEPT !.heap[o].stQueued = FALSE])
        ELSE drainQueue(StartExecution(
                [e EXCEPT !.runningCount = @ + 1, !.heap[o].stQueued = FALSE], id))

\* variant of lines 1045-1046 that takes the newest entry of the queue
drainQueueNewestFirst(e) ==
    IF ~e.running THEN e
    ELSE IF e.runningCount < e.maxConcurrency /\ Len(e.runQueue) > 0
    THEN Dispatch([e EXCEPT !.runQueue = SubSeq(@, 1, Len(@) - 1),
                            !.queuedIds = @ \ {e.runQueue[Len(e.runQueue)]}],
                  e.runQueue[Len(e.runQueue)])
    ELSE e

drainQueue(e) ==
    IF ~e.running THEN e
    ELSE IF e.runningCount < e.maxConcurrency /\ Len(e.runQueue) > 0
    THEN Dispatch([e EXCEPT !.runQueue = Tail(@), !.queuedIds = @ \ {Head(e.runQueue)}],
                  Head(e.runQueue))
    ELSE e

enqueueExecution(e, id) ==
    IF ~e.running THEN e
    ELSE IF e.tasks[id] = 0 THEN e
    ELSE
        LET o == e.tasks[id]
        IN  IF ~e.heap[o].enabled \/ e.heap[o].blocked THEN e
            ELSE IF e.heap[o].active \/ id \in e.queuedIds THEN e
            ELSE drainQueue([e EXCEPT
                    !.queuedIds = @ \cup {id},
                    !.runQueue = Append(@, id),
                    !.heap[o].stQueued = TRUE])

\* pool.release(page) in the finally block of checkTask: the pool is the
\* one the execution took the page from
Release(e, i) ==
    IF e.execs[i].hasPage /\ ~e.execs[i].foreign /\ e.pagePool.live
    THEN [e EXCEPT !.pagePool.idlePages = @ + 1] ELSE e

\* variant of lines 1117-1130 that counts every run as a failure
ConcludeCountingEveryRun(e, i, errored) ==
    [e EXCEPT
        !.heap[e.execs[i].obj].failureCount = Min(MAX_FAILURE_COUNT, @ + 1),
        !.heap[e.execs[i].obj].active = FALSE,
        !.heap[e.execs[i].obj].stRunning = FALSE,
        !.execs = RemoveAt(@, i)]

\* lines 1117-1130: the counters and flags of the captured task and status
Conclude(e, i, errored) ==
    [e EXCEPT
        !.heap[e.execs[i].obj].failureCount = IF errored THEN Min(MAX_FAILURE_COUNT, @ + 1) ELSE 0,
        !.heap[e.execs[i].obj].active = FALSE,
        !.heap[e.execs[i].obj].stRunning = FALSE,
        !.execs = RemoveAt(@, i)]

\* lines 1132-1179: the next run is planned on the registry's current object
Reschedule(e, o, id, errored) ==
    IF ~e.running THEN e
    ELSE IF e.tasks[id] = 0 THEN [e EXCEPT !.heap[o].stQueued = FALSE]
    ELSE IF ~e.heap[e.tasks[id]].enabled \/ e.heap[e.tasks[id]].blocked
         THEN [e EXCEPT !.heap[o].stQueued = FALSE]
    ELSE scheduleTask(e, id, IF errored THEN "backoff" ELSE "interval")

\* the completion callback installed by drainQueue, lines 1074-1077
Completed(e) == drainQueue([e EXCEPT !.runningCount = Max(0, @ - 1)])

\* checkTask has returned or thrown: the rest of executeTaskInternal and the
\* completion callback; i is the position of the execution
FinishExecution(e, i, errored) ==
    Completed(Reschedule(Conclude(Release(e, i), i, errored),
                         e.execs[i].obj, e.execs[i].id, errored))

\* ---------------------------------------------------------------- registry
\* line 778: the id of the legacy task at position index is legacy-<index>
LegacyIndex(id) == IF id = LegacyId THEN 1 ELSE 2

\* variant of lines 757-771 that carries the baseline over only to an
\* enabled task
NewDescriptorForgetful(e, id) ==
    LET fresh == IF id = UiId
                 THEN createDescriptorFromOptions(id, e.uiTasks.enabled, e.uiTasks.outputDir,
                                                  e.uiTasks.requiredKeyword, FALSE)
                 ELSE createDescriptorFromOptions(id, TRUE, e.legacyOptions[LegacyIndex(id)].outputDir,
                                                  NoKeyword,
                                                  e.legacyOptions[LegacyIndex(id)].extractResource)
        prev == e.tasks[id]
        previous == e.heap[prev]
        sameDir == IF prev # 0 /\ previous.outputDir = fresh.outputDir /\ fresh.enabled
                   THEN [fresh EXCEPT
                            !.lastText = previous.lastText,
                            !.lastResources = previous.lastResources,
                            !.stateLoaded = previous.stateLoaded,
                            !.lastTextHash = previous.lastTextHash]
                   ELSE fresh
    IN  IF prev = 0 THEN fresh
        ELSE [sameDir EXCEPT
                !.active = previous.active,
                !.failureCount = previous.failureCount,
                !.blocked = previous.blocked,
                !.blockedReason = previous.blockedReason,
                !.blockedAt = previous.blockedAt]

\* variant of lines 757-771 that carries the baseline over to another
\* output directory
NewDescriptorAnyDir(e, id) ==
    LET fresh == IF id = UiId
                 THEN createDescriptorFromOptions(id, e.uiTasks.enabled, e.uiTasks.outputDir,
                                                  e.uiTasks.requiredKeyword, FALSE)
                 ELSE createDescriptorFromOptions(id, TRUE, e.legacyOptions[LegacyIndex(id)].outputDir,
                                                  NoKeyword,
                                                  e.legacyOptions[LegacyIndex(id)].extractResource)
        prev == e.tasks[id]
        previous == e.heap[prev]
    IN  IF prev = 0 THEN fresh
        ELSE [fresh EXCEPT
                !.lastText = previous.lastText,
                !.lastResources = previous.lastResources,
                !.stateLoaded = previous.stateLoaded,
                !.lastTextHash = previous.lastTextHash,
                !.active = previous.active,
                !.failureCount = previous.failureCount,
                !.blocked = previous.blocked,
                !.blockedReason = previous.blockedReason,
                !.blockedAt = previous.blockedAt]

\* the descriptor rebuildRuntimeTasks creates for id, with the runtime state
\* it copies from the previous object of that id
NewDescriptor(e, id) ==
    LET fresh == IF id = UiId
                 THEN createDescriptorFromOptions(id, e.uiTasks.enabled, e.uiTasks.outputDir,
                                                  e.uiTasks.requiredKeyword, FALSE)
                 ELSE createDescriptorFromOptions(id, TRUE, e.legacyOptions[LegacyIndex(id)].outputDir,
                                                  NoKeyword,
                                                  e.legacyOptions[LegacyIndex(id)].extractResource)
        prev == e.tasks[id]
        previous == e.heap[prev]
        sameDir == IF prev # 0 /\ previous.outputDir = fresh.outputDir
                   THEN [fresh EXCEPT
                            !.lastText = previous.lastText,
                            !.lastResources = previous.lastResources,
                            !.stateLoaded = previous.stateLoaded,
                            !.lastTextHash = previous.lastTextHash]
                   ELSE fresh
    IN  IF prev = 0 THEN fresh
        ELSE [sameDir EXCEPT
                !.active = previous.active,
                !.failureCount = previous.failureCount,
                !.blocked = previous.blocked,
                !.blockedReason = previous.blockedReason,
                !.blockedAt = previous.blockedAt]

\* the status entry syncStatusesWithTasks creates for descriptor d
SyncStatus(e, id, d) ==
    LET prev == e.tasks[id]
        running0 == IF d.enabled /\ prev # 0 THEN e.heap[prev].stRunning ELSE FALSE
        queued0 == IF ~d.enabled THEN FALSE
                   ELSE IF prev # 0 THEN e.heap[prev].stQueued ELSE id \in e.queuedIds
    IN  [d EXCEPT
            !.stRunning = IF d.blocked THEN FALSE ELSE running0,
            !.stQueued = IF d.blocked THEN FALSE ELSE queued0,
            !.stBlocked = d.blocked]

NextIds(e) ==
    (IF e.uiTasks.present THEN {UiId} ELSE {})
    \cup (IF e.runtimeOptions.includeLegacyTasks
          THEN {id \in {LegacyId, Legacy2Id} : LegacyIndex(id) <= Len(e.legacyOptions)}
          ELSE {})

\* lines 805-812: tasks that disappear lose their timer and leave the queue
RECURSIVE DropRemoved(_, _)
DropRemoved(e, ids) ==
    IF ids = <<>> THEN e
    ELSE LET id == Head(ids)
         IN  DropRemoved(IF e.tasks[id] # 0 /\ id \notin NextIds(e)
                         THEN removeFromQueue([e EXCEPT !.heap[e.tasks[id]].timer = "none"], id)
                         ELSE e,
                         Tail(ids))

\* lines 814-815: this.tasks = nextTasks; syncStatusesWithTasks().  The new
\* objects are placed after the ones the heap holds.
InstallNext(e) ==
    LET created == SelectSeq(IdOrder, LAMBDA id : id \in NextIds(e))
    IN  [e EXCEPT
            !.tasks = [id \in Ids |->
                        IF id \in NextIds(e)
                        THEN Len(e.heap) + (CHOOSE k \in DOMAIN created : created[k] = id)
                        ELSE 0],
            !.heap = @ \o [k \in DOMAIN created |->
                             SyncStatus(e, created[k], NewDescriptor(e, created[k]))]]

\* lines 816-820
RECURSIVE UnqueueIdle(_, _)
UnqueueIdle(e, ids) ==
    IF ids = <<>> THEN e
    ELSE LET id == Head(ids)
         IN  UnqueueIdle(IF e.tasks[id] # 0 /\ (~e.heap[e.tasks[id]].enabled \/ e.heap[e.tasks[id]].blocked)
                         THEN removeFromQueue(e, id) ELSE e,
                         Tail(ids))

\* lines 822-832: the new object has no timer to clear
RECURSIVE Rearm(_, _)
Rearm(e, ids) ==
    IF ids = <<>> THEN e
    ELSE LET id == Head(ids)
         IN  Rearm(IF e.running /\ e.tasks[id] # 0 /\ e.heap[e.tasks[id]].enabled
                      /\ ~e.heap[e.tasks[id]].active
                   THEN scheduleTask(e, id, "250ms") ELSE e,
                   Tail(ids))

rebuildRuntimeTasks(e) ==
    Collect(Rearm(UnqueueIdle(InstallNext(DropRemoved(e, IdOrder)), IdOrder), IdOrder))

\* --------------------------------------------------------- snapshot store
\* what loadTaskState returns for { state: null, baselineText: null }
NoState == NoDiskState

\* lines 186-221, raw being the parsed content of state.json
normalizeTaskState(raw) ==
    IF raw.version # 1 THEN NoState
    ELSE IF raw.textHash = NoHash THEN NoState
    ELSE raw

\* lines 223-244: readFile or JSON.parse throws on a missing or unparsable
\* file, and the catch block leaves state null
loadTaskState(d, outputDir) ==
    IF d[outputDir].stateFile # "json" THEN NoState
    ELSE normalizeTaskState(d[outputDir])

saveTaskStateJson(d, outputDir, textHash, resources) ==
    [d EXCEPT ![outputDir].stateFile = "json", ![outputDir].version = 1,
              ![outputDir].textHash = textHash, ![outputDir].resources = resources]

saveTaskBaseline(d, outputDir, text) ==
    [d EXCEPT ![outputDir].hasBaseline = TRUE, ![outputDir].baseline = text]

\* result: "ok", "failBaseline" (nothing written) or "failState" (baseline
\* file written, writing state.json failed)
saveTaskBaselineAndState(d, outputDir, text, textHash, resources, result) ==
    IF result = "failBaseline" THEN d
    ELSE IF result = "failState" THEN saveTaskBaseline(d, outputDir, text)
    ELSE saveTaskStateJson(saveTaskBaseline(d, outputDir, text), outputDir, textHash, resources)

\* -------------------------------------------------------------- change log
recordChange(e, id, kind) ==
    LET added == <<[taskId |-> id, kind |-> kind]>> \o e.changes
    IN  [e EXCEPT !.changes = IF Len(added) > MAX_CHANGE_RECORDS
                              THEN SubSeq(added, 1, MAX_CHANGE_RECORDS) ELSE added]

\* A limit passed to getChanges is a JavaScript number: NaN, or the number
\* halves/2 (so that limits with a fractional part are among the inputs).
Limit(halves) == [nan |-> FALSE, halves |-> halves]
NaN == [nan |-> TRUE, halves |-> 0]

\* Math.floor of the number halves/2
floor(halves) == halves \div 2

\* getChanges without the lower clamp of safeLimit
getChangesUnclamped(e, limit) ==
    IF limit.nan THEN <<>>
    ELSE SubSeq(e.changes, 1, Min(Max(0, Min(500, floor(limit.halves))), Len(e.changes)))

\* NaN passes through Math.floor, Math.min and Math.max, and slice(0, NaN)
\* is empty; the copies that map() makes have the fields of the records
getChanges(e, limit) ==
    IF limit.nan THEN <<>>
    ELSE LET safeLimit == Max(1, Min(500, floor(limit.halves)))
         IN  SubSeq(e.changes, 1, Min(safeLimit, Len(e.changes)))

\* ------------------------------------------------------------ page outcomes
HasResourcesToCompare(id) == id = LegacyId

\* ----------------------------------------------------------------- checkTask
\* The operators below take the engine e and the position i of an execution
\* and return the pair <<engine, done, errored>> packed as a record, where
\* done says that checkTask has returned or thrown.
Step(e, done, errored) == [e |-> e, done |-> done, errored |-> errored]

\* PagePool.acquire on the engine's current pool
Acquire(e, i) ==
    IF e.pagePool.idlePages > 0
    THEN Step([e EXCEPT !.pagePool.idlePages = @ - 1,
                        !.execs[i].hasPage = TRUE, !.execs[i].pc = "page"], FALSE, FALSE)
    ELSE IF e.pagePool.totalPages >= e.pagePool.size
    THEN Step(e, TRUE, TRUE)
    ELSE Step([e EXCEPT !.pagePool.totalPages = @ + 1,
                        !.execs[i].hasPage = TRUE, !.execs[i].pc = "page"], FALSE, FALSE)

NewPool(e) == [live |-> TRUE, size |-> e.maxConcurrency, totalPages |-> 0, idlePages |-> 0]

\* ensureBrowser up to its await, then pool.acquire when a session is live
EnsureBrowser(e, i) ==
    IF e.browser # "none"
    THEN Acquire([e EXCEPT !.pagePool = IF @.live THEN @ ELSE NewPool(e)], i)
    ELSE Step([e EXCEPT !.browser = "none", !.browserManaged = FALSE, !.pagePool = NoPool,
                        !.execs[i].attach = (e.runtimeOptions.mode = "attach"),
                        !.execs[i].pc = "launching"], FALSE, FALSE)

\* ensureBrowser after connect() or launch() has resolved: the session and a
\* new pool replace whatever the engine held; pages of an older pool no
\* longer belong to the engine's pool
BrowserReady(e, i) ==
    LET e1 == [e EXCEPT
                !.browser = IF e.execs[i].attach THEN "attached" ELSE "launched",
                !.browserManaged = ~e.execs[i].attach,
                !.sessions = IF e.execs[i].attach THEN [@ EXCEPT !.attached = @ + 1]
                                                  ELSE [@ EXCEPT !.launched = @ + 1],
                !.pagePool = NewPool(e),
                !.execs = [j \in DOMAIN @ |-> IF @[j].hasPage THEN [@[j] EXCEPT !.foreign = TRUE] ELSE @[j]]]
    IN  Acquire(e1, i)

\* variant of lines 1349-1365 that adopts the hash of the text just seen
AfterDownloadAdoptingHash(e, i) ==
    LET x == e.execs[i]
        e1 == [e EXCEPT !.heap[x.obj].lastResources = x.res,
                        !.heap[x.obj].lastTextHash = sha256(x.text)]
    IN  IF ~x.baselineUpdated /\ x.resourcesChanged
        THEN Step([e1 EXCEPT !.execs[i].pc = "saveState"], FALSE, FALSE)
        ELSE Step(e1, TRUE, FALSE)

\* downloadChangedResources has returned: lines 1349-1365
AfterDownload(e, i) ==
    LET x == e.execs[i]
        e1 == [e EXCEPT !.heap[x.obj].lastResources = x.res]
    IN  IF ~x.baselineUpdated /\ x.resourcesChanged
        THEN Step([e1 EXCEPT !.execs[i].pc = "saveState"], FALSE, FALSE)
        ELSE Step(e1, TRUE, FALSE)

\* variant of lines 1341-1347 without the filter on the stored ids
ResourceStageRefetch(e, i) ==
    IF e.execs[i].res # <<>>
    THEN Step([e EXCEPT !.execs[i].todo = e.execs[i].res, !.execs[i].pc = "download"], FALSE, FALSE)
    ELSE AfterDownload(e, i)

\* lines 1341-1347: which resources are new
ResourceStage(e, i) ==
    LET x == e.execs[i]
        lastResources == e.heap[x.obj].lastResources
        diff == SelectSeq(x.res, LAMBDA r : r \notin Range(lastResources))
    IN  IF Len(x.res) >= Len(lastResources) /\ diff # <<>>
        THEN Step([e EXCEPT !.execs[i].todo = diff, !.execs[i].pc = "download"], FALSE, FALSE)
        ELSE AfterDownload(e, i)

keywordMatched(task, currentText) ==
    task.requiredKeywordLower = NoKeyword \/ includes(toLowerCase(currentText), task.requiredKeywordLower)

\* checkTask from the result of runTask to its next await (lines 1238-1347)
Examine(e, i, out) ==
    LET x == e.execs[i]
        o == x.obj
        task == e.heap[o]
        cur == e.tasks[x.id]
    IN  IF out.kind = "throw" THEN Step(e, TRUE, TRUE)
        ELSE IF out.kind = "antibot"
        THEN LET e1 == [e EXCEPT !.heap[o].blocked = TRUE, !.heap[o].blockedReason = TRUE,
                                 !.heap[o].blockedAt = TRUE]
                 e2 == IF cur # 0
                       THEN [e1 EXCEPT !.heap[cur].stBlocked = TRUE, !.heap[cur].stQueued = FALSE]
                       ELSE e1
             IN  Step(e2, TRUE, FALSE)
        ELSE IF out.responseStatus >= 400 THEN Step(e, TRUE, TRUE)
        ELSE
            LET currentHash == sha256(out.text)
                textChanged == currentHash # task.lastTextHash
                shouldSave == textChanged /\ keywordMatched(task, out.text)
                resourcesChanged == out.res # task.lastResources
                e1 == [e EXCEPT !.execs[i].text = out.text, !.execs[i].res = out.res]
            IN  IF task.lastTextHash = NoHash
                THEN Step([e1 EXCEPT !.execs[i].pc = "seed"], FALSE, FALSE)
                ELSE LET e2 == [e1 EXCEPT !.execs[i].compared = TRUE,
                                          !.execs[i].textChanged = textChanged,
                                          !.execs[i].shouldSave = shouldSave,
                                          !.execs[i].resourcesChanged = resourcesChanged]
                     IN  IF shouldSave
                         THEN Step([e2 EXCEPT !.execs[i].pc = "report"], FALSE, FALSE)
                         ELSE ResourceStage(e2, i)

\* lines 1278-1290: no baseline yet, the run only seeds it
SeedBaseline(e, i, result) ==
    LET x == e.execs[i]
        o == x.obj
        e1 == [e EXCEPT !.disk = saveTaskBaselineAndState(@, e.heap[o].outputDir, x.text,
                                                         sha256(x.text), x.res, result)]
    IN  IF result # "ok" THEN Step(e1, TRUE, TRUE)
        ELSE Step([e1 EXCEPT !.heap[o].lastText = x.text,
                             !.heap[o].lastTextHash = sha256(x.text),
                             !.heap[o].lastResources = x.res,
                             !.execs[i].baselineUpdated = TRUE], TRUE, FALSE)

\* lines 1305-1322: the report file is written and the change recorded
WriteReport(e, i, ok) ==
    IF ~ok THEN Step(e, TRUE, TRUE)
    ELSE Step(recordChange([e EXCEPT !.reports = @ + 1, !.execs[i].pc = "save",
                                     !.execs[i].reported = @ + 1, !.execs[i].recorded = @ + 1],
                           e.execs[i].id, "report"), FALSE, FALSE)

\* lines 1324-1347: the new baseline is persisted and adopted
SaveNewBaseline(e, i, result) ==
    LET x == e.execs[i]
        o == x.obj
        e1 == [e EXCEPT !.disk = saveTaskBaselineAndState(@, e.heap[o].outputDir, x.text,
                                                         sha256(x.text), x.res, result)]
    IN  IF result # "ok" THEN Step(e1, TRUE, TRUE)
        ELSE ResourceStage([e1 EXCEPT !.heap[o].lastText = x.text,
                                      !.heap[o].lastTextHash = sha256(x.text),
                                      !.execs[i].baselineUpdated = TRUE], i)

\* downloadChangedResources: one turn per resource id when the task has an
\* extractResource function, one turn for the id list otherwise
Download(e, i, ok) ==
    LET x == e.execs[i]
    IN  IF ~ok THEN Step(e, TRUE, TRUE)
        ELSE IF ~e.heap[x.obj].extractResource
        THEN AfterDownload(recordChange([e EXCEPT !.execs[i].todo = <<>>, !.execs[i].recorded = @ + 1],
                                        x.id, "resource"), i)
        ELSE LET e1 == recordChange([e EXCEPT !.execs[i].todo = Tail(@), !.execs[i].recorded = @ + 1],
                                    x.id, "resource")
             IN  IF Tail(x.todo) = <<>> THEN AfterDownload(e1, i) ELSE Step(e1, FALSE, FALSE)

\* lines 1351-1365: only the resource list changed
SaveStateOnly(e, i, ok) ==
    LET x == e.execs[i]
        task == e.heap[x.obj]
    IN  IF ~ok THEN Step(e, TRUE, TRUE)
        ELSE Step([e EXCEPT !.disk = saveTaskStateJson(@, task.outputDir, task.lastTextHash, x.res)],
                  TRUE, FALSE)

\* ensureTaskStateLoaded after loadTaskState has resolved
StateLoaded(e, i) ==
    LET x == e.execs[i]
        o == x.obj
        st == loadTaskState(e.disk, e.heap[o].outputDir)
        e1 == [e EXCEPT !.execs[i].pc = "browser", !.execs[i].noBaseline = (st = NoState)]
    IN  IF st = NoState THEN e1
        ELSE [e1 EXCEPT !.heap[o].lastTextHash = st.textHash,
                        !.heap[o].lastResources = st.resources,
                        !.heap[o].lastText = IF st.hasBaseline THEN st.baseline ELSE @]

\* An execution whose state is loaded reaches ensureBrowser without yielding
\* to the event loop (lines 1206-1214): these continuations run before the
\* turn ends, in start order.
RECURSIVE Settle(_)
Settled(st, i) == Settle(IF st.done THEN FinishExecution(st.e, i, st.errored) ELSE st.e)

SettleAt(e, i) == Settled(EnsureBrowser(e, i), i)

Settle(e) ==
    IF \E i \in DOMAIN e.execs : e.execs[i].pc = "browser"
    THEN SettleAt(e, CHOOSE i \in DOMAIN e.execs :
                        /\ e.execs[i].pc = "browser"
                        /\ \A j \in 1..(i - 1) : e.execs[j].pc # "browser")
    ELSE e

\* ---------------------------------------------------------- public methods
\* browser.close() when managed, browser.disconnect() otherwise, on a session
\* of the given kind: disconnect() leaves a launched browser running
Released(s, kind, managed) ==
    IF managed
    THEN [s EXCEPT ![kind] = @ - 1, !.attachedClosed = @ \/ kind = "attached"]
    ELSE IF kind = "attached" THEN [s EXCEPT !.attached = @ - 1] ELSE s

\* a teardownBrowser that closes whatever session the engine holds
teardownBrowserClosing(e) ==
    [e EXCEPT
        !.pagePool = NoPool,
        !.browser = "none",
        !.browserManaged = FALSE,
        !.sessions = IF e.browser = "none" THEN @ ELSE Released(@, e.browser, TRUE),
        !.execs = [j \in DOMAIN @ |->
                    IF @[j].hasPage THEN [@[j] EXCEPT !.stale = TRUE, !.foreign = TRUE] ELSE @[j]]]

\* teardownBrowser: the pages of the pool are closed, the session is closed
\* or disconnected and the engine forgets both
teardownBrowser(e) ==
    [e EXCEPT
        !.pagePool = NoPool,
        !.browser = "none",
        !.browserManaged = FALSE,
        !.sessions = IF e.browser = "none" THEN @ ELSE Released(@, e.browser, e.browserManaged),
        !.execs = [j \in DOMAIN @ |->
                    IF @[j].hasPage THEN [@[j] EXCEPT !.stale = TRUE, !.foreign = TRUE] ELSE @[j]]]

\* lines 912-927 of stop, before teardownBrowser
Halted(e) ==
    LET inRegistry(o) == \E id \in Ids : e.tasks[id] = o
    IN  [e EXCEPT
            !.running = FALSE,
            !.runQueue = <<>>,
            !.queuedIds = {},
            !.runningCount = 0,
            !.heap = [o \in DOMAIN @ |->
                        IF inRegistry(o)
                        THEN [@[o] EXCEPT !.timer = "none", !.active = FALSE,
                                          !.stRunning = FALSE, !.stQueued = FALSE]
                        ELSE @[o]]]

stop(e) == teardownBrowser(Halted(e))

\* lines 901-905 of start: every enabled task gets its first timer
RECURSIVE ArmAll(_, _)
ArmAll(e, ids) ==
    IF ids = <<>> THEN e
    ELSE LET id == Head(ids)
         IN  ArmAll(IF e.tasks[id] # 0 /\ e.heap[e.tasks[id]].enabled
                    THEN scheduleTask(e, id, "100ms") ELSE e,
                    Tail(ids))

Restarted(e) ==
    ArmAll([e EXCEPT !.runQueue = <<>>, !.queuedIds = {}, !.runningCount = 0, !.running = TRUE],
           IdOrder)

start(e) ==
    IF e.running THEN e
    ELSE Restarted(IF \A id \in Ids : e.tasks[id] = 0 THEN rebuildRuntimeTasks(e) ELSE e)

\* unblockTask without lines 954-955: the flag is cleared and no timer is set
unblockTaskWithoutRearm(e, id) ==
    IF e.tasks[id] = 0 THEN e
    ELSE
        LET o == e.tasks[id]
            e1 == removeFromQueue([e EXCEPT !.heap[o].blocked = FALSE,
                                            !.heap[o].blockedReason = FALSE,
                                            !.heap[o].blockedAt = FALSE], id)
        IN  [e1 EXCEPT !.heap[o].stBlocked = FALSE, !.heap[o].stQueued = FALSE]

\* the boolean unblockTask returns
unblockTaskResult(e, id) == e.tasks[id] # 0

unblockTask(e, id) ==
    IF e.tasks[id] = 0 THEN e
    ELSE
        LET o == e.tasks[id]
            e1 == removeFromQueue([e EXCEPT !.heap[o].blocked = FALSE,
                                            !.heap[o].blockedReason = FALSE,
                                            !.heap[o].blockedAt = FALSE], id)
            e2 == [e1 EXCEPT !.heap[o].stBlocked = FALSE, !.heap[o].stQueued = FALSE]
        IN  IF e2.running /\ e2.heap[o].enabled THEN scheduleTask(e2, id, "250ms") ELSE e2

setUiTasks(e, cfg) == rebuildRuntimeTasks([e EXCEPT !.uiTasks = cfg])

\* file: what importing the legacy module yields (an import error yields <<>>)
refreshLegacyTasks(e, file) ==
    IF ~e.runtimeOptions.includeLegacyTasks
    THEN rebuildRuntimeTasks([e EXCEPT !.legacyOptions = <<>>])
    ELSE rebuildRuntimeTasks([e EXCEPT !.legacyOptions = file])

\* lines 511-529 of applyRuntimeOptions, after stop() when the engine was running
Reconfigured(e, nextRuntime, file, wasRunning) ==
    IF wasRunning
    THEN start(rebuildRuntimeTasks(refreshLegacyTasks(
            [e EXCEPT !.runtimeOptions = nextRuntime,
                      !.maxConcurrency = EffectiveMaxConcurrency(nextRuntime)], file)))
    ELSE rebuildRuntimeTasks(refreshLegacyTasks(
            [e EXCEPT !.runtimeOptions = nextRuntime,
                      !.maxConcurrency = EffectiveMaxConcurrency(nextRuntime)], file))

applyRuntimeOptions(e, nextRuntime, file) ==
    IF e.runtimeOptions = nextRuntime THEN e
    ELSE Reconfigured(IF e.running THEN stop(e) ELSE e, nextRuntime, file, e.running)

\* ------------------------------------------------------------------ actions
\* A scope fixes the inputs a specification draws from: the runtime options
\* and task configurations the operator may submit, what the legacy module
\* exports, what the monitored pages show, and which file operations fail.
\* A scope fixes the inputs a specification draws from: the runtime options
\* and task configurations the operator may submit, what the legacy module
\* exports, what the output directories hold at startup, and what pages
\* return.
LaunchOne == [mode |-> "launch", maxConcurrency |-> 1, includeLegacyTasks |-> TRUE]
AttachTwo == [mode |-> "attach", maxConcurrency |-> 2, includeLegacyTasks |-> TRUE]

UiPlain == [present |-> TRUE, enabled |-> TRUE, outputDir |-> "d1", requiredKeyword |-> NoKeyword]
UiKeyword == [UiPlain EXCEPT !.requiredKeyword = <<"F">>]
UiDisabled == [UiPlain EXCEPT !.enabled = FALSE]
UiMoved == [UiPlain EXCEPT !.outputDir = "d2"]

EmptyDisk == [d \in Dirs |-> NoDiskState]
\* d1 holds the snapshot of an earlier process whose legacy task watched
\* resources there
UsedDisk ==
    [EmptyDisk EXCEPT !["d1"] = [stateFile |-> "json", version |-> 1,
                                 textHash |-> sha256(TextF), resources |-> <<"a">>,
                                 hasBaseline |-> TRUE, baseline |-> TextF]]

\* the built-in task alone
UiScope ==
    [ initRuntime |-> {LaunchOne},
      runtimes |-> {LaunchOne, AttachTwo},
      initCfgs |-> {UiPlain},
      uiCfgs |-> {UiPlain, UiKeyword, UiDisabled, NoCfg},
      initLegacy |-> {<<>>},
      legacyFiles |-> {<<>>},
      initDisk |-> {EmptyDisk, UsedDisk},
      texts |-> {TextX, TextF},
      resLists |-> {NoResources},
      kinds |-> {"ok", "antibot", "throw"},
      saveResults |-> {"ok"},
      writeOk |-> {TRUE} ]

\* the built-in task, whose output directory setUiTasks changes
MoveScope == [UiScope EXCEPT !.uiCfgs = {UiMoved}, !.initDisk = {UsedDisk}]

\* the legacy task alone
LegacyScope ==
    [ initRuntime |-> {LaunchOne},
      runtimes |-> {LaunchOne, AttachTwo},
      initCfgs |-> {NoCfg},
      uiCfgs |-> {NoCfg},
      initLegacy |-> {<<LegacyTask>>},
      legacyFiles |-> {<<>>, <<LegacyTask>>},
      initDisk |-> {EmptyDisk},
      texts |-> {TextX, TextF},
      resLists |-> {NoResources, <<"a">>},
      kinds |-> {"ok", "throw"},
      saveResults |-> {"ok"},
      writeOk |-> {TRUE} ]

\* the built-in task and two legacy tasks, one page of text; the built-in
\* task can be disabled while the engine runs
QueueScope ==
    [ initRuntime |-> {LaunchOne},
      runtimes |-> {LaunchOne},
      initCfgs |-> {UiPlain},
      uiCfgs |-> {UiDisabled},
      initLegacy |-> {PlainTasks},
      legacyFiles |-> {PlainTasks},
      initDisk |-> {EmptyDisk},
      texts |-> {TextX},
      resLists |-> {NoResources},
      kinds |-> {"ok", "throw"},
      saveResults |-> {"ok"},
      writeOk |-> {TRUE} ]

\* what runTask gives: it throws ("throw", nothing is returned), or returns
\* a page with anti-bot markers (here a challenge served with status 403), a
\* page with final response status 404 ("http") or a page with status 200
Outcomes(sc, id) ==
    [kind : {"ok"} \cap sc.kinds, text : sc.texts,
     res : IF HasResourcesToCompare(id) THEN sc.resLists ELSE {NoResources},
     responseStatus : {200}]
    \cup [kind : {"antibot"} \cap sc.kinds, text : {NoText}, res : {NoResources}, responseStatus : {403}]
    \cup [kind : {"http"} \cap sc.kinds, text : sc.texts, res : {NoResources}, responseStatus : {404}]
    \cup [kind : {"throw"} \cap sc.kinds, text : {NoText}, res : {NoResources}, responseStatus : {0}]

Label(op, id) ==
    [op |-> op, id |-> id, x |-> NoExec, done |-> FALSE, errored |-> FALSE, delaySec |-> 0,
     ret |-> FALSE, arg |-> 0]

\* the engine e becomes the next state
Becomes(e, lbl) ==
    /\ e.started[UiId] + e.started[LegacyId] + e.started[Legacy2Id] <= MaxRuns
    /\ started' = e.started
    /\ running' = e.running
    /\ runtimeOptions' = e.runtimeOptions
    /\ maxConcurrency' = e.maxConcurrency
    /\ uiTasks' = e.uiTasks
    /\ legacyOptions' = e.legacyOptions
    /\ tasks' = e.tasks
    /\ heap' = e.heap
    /\ runQueue' = e.runQueue
    /\ queuedIds' = e.queuedIds
    /\ runningCount' = e.runningCount
    /\ execs' = e.execs
    /\ changes' = e.changes
    /\ reports' = e.reports
    /\ disk' = e.disk
    /\ browser' = e.browser
    /\ browserManaged' = e.browserManaged
    /\ pagePool' = e.pagePool
    /\ sessions' = e.sessions
    /\ last' = lbl

\* a turn of the event loop ends: pending continuations have run
Commit(e0, lbl) == Becomes(Collect(Settle(e0)), lbl)

\* a call of a public method other than start()
Counted ==
    /\ ops < MaxOps
    /\ ops' = ops + 1

SetUiTasks(sc) ==
    \E cfg \in sc.uiCfgs :
        /\ Counted
        /\ Commit(setUiTasks(Eng, cfg), Label("setUiTasks", UiId))

RefreshLegacyTasks(sc) ==
    \E file \in sc.legacyFiles :
        /\ Counted
        /\ Commit(refreshLegacyTasks(Eng, file), Label("refreshLegacyTasks", LegacyId))

Start ==
    /\ ~running
    /\ ops' = ops
    /\ Commit(start(Eng), Label("start", UiId))

Stop ==
    /\ Counted
    /\ Commit(stop(Eng), Label("stop", UiId))

UnblockTask ==
    \E id \in Ids :
        /\ Counted
        /\ Commit(unblockTask(Eng, id),
                  [Label("unblockTask", id) EXCEPT !.ret = unblockTaskResult(Eng, id)])

ApplyRuntimeOptions(sc) ==
    \E nextRuntime \in sc.runtimes, file \in sc.legacyFiles :
        /\ nextRuntime # runtimeOptions
        /\ Counted
        /\ Commit(applyRuntimeOptions(Eng, nextRuntime, file), Label("applyRuntimeOptions", UiId))

\* the callback scheduleTask passed to setTimeout, lines 994-997
TimerFires ==
    \E o \in DOMAIN heap :
        /\ heap[o].timer # "none"
        /\ ops' = ops
        /\ Commit(enqueueExecution([Eng EXCEPT !.heap[o].timer = "none"], heap[o].id),
                  Label("timer", heap[o].id))

\* lines 1166-1168: the delay of a retry before jitter, in seconds
retryDelaySec(intervalSec, failureCount) == Min(3600, Max(5, intervalSec) * 2^failureCount)

\* lines 1133-1179: the delay in seconds, before jitter, that the finally
\* block of executeTaskInternal passes to scheduleTask, 0 when it arms
\* nothing; e is the engine after the catch block
ArmedDelaySec(e, id, errored) ==
    IF ~e.running \/ e.tasks[id] = 0 THEN 0
    ELSE IF ~e.heap[e.tasks[id]].enabled \/ e.heap[e.tasks[id]].blocked THEN 0
    ELSE IF errored THEN retryDelaySec(IntervalSec, e.heap[e.tasks[id]].failureCount)
    ELSE IntervalSec

\* one turn of an execution: st is what checkTask did in this turn; when it
\* returned or threw, executeTaskInternal finishes in the same turn
Turn(i, st, op) ==
    /\ ops' = ops
    /\ Commit(IF st.done THEN FinishExecution(st.e, i, st.errored) ELSE st.e,
              [op |-> op, id |-> execs[i].id,
               x |-> [st.e.execs[i] EXCEPT !.obj = 0], done |-> st.done, errored |-> st.errored,
               delaySec |-> IF st.done
                            THEN ArmedDelaySec(Conclude(st.e, i, st.errored), execs[i].id, st.errored)
                            ELSE 0,
               ret |-> FALSE, arg |-> 0])

MayFail(i) == heap[execs[i].obj].failureCount < MaxFailures

ExecStateLoaded ==
    \E i \in DOMAIN execs :
        /\ execs[i].pc = "load"
        /\ Turn(i, Step(StateLoaded(Eng, i), FALSE, FALSE), "stateLoaded")

ExecBrowserReady(sc) ==
    \E i \in DOMAIN execs, ok \in sc.writeOk :
        /\ execs[i].pc = "launching"
        /\ ok \/ MayFail(i)
        /\ Turn(i, IF ok THEN BrowserReady(Eng, i) ELSE Step(Eng, TRUE, TRUE), "browserReady")

ExecRunTask(sc) ==
    \E i \in DOMAIN execs :
        \E out \in Outcomes(sc, execs[i].id) :
            /\ execs[i].pc = "page"
            /\ execs[i].stale => out.kind = "throw"
            /\ (out.kind \in {"throw", "http"} /\ ~execs[i].stale) => MayFail(i)
            /\ Turn(i, Examine(Eng, i, out), out.kind)

ExecSeedBaseline(sc) ==
    \E i \in DOMAIN execs, result \in sc.saveResults :
        /\ execs[i].pc = "seed"
        /\ result = "ok" \/ MayFail(i)
        /\ Turn(i, SeedBaseline(Eng, i, result), "seed")

ExecWriteReport(sc) ==
    \E i \in DOMAIN execs, ok \in sc.writeOk :
        /\ execs[i].pc = "report"
        /\ Len(changes) < MaxChanges
        /\ ok \/ MayFail(i)
        /\ Turn(i, WriteReport(Eng, i, ok), "report")

ExecSaveNewBaseline(sc) ==
    \E i \in DOMAIN execs, result \in sc.saveResults :
        /\ execs[i].pc = "save"
        /\ result = "ok" \/ MayFail(i)
        /\ Turn(i, SaveNewBaseline(Eng, i, result), "save")

ExecDownload(sc) ==
    \E i \in DOMAIN execs, ok \in sc.writeOk \cup {FALSE} :
        /\ execs[i].pc = "download"
        /\ Len(changes) < MaxChanges
        /\ (execs[i].stale /\ heap[execs[i].obj].extractResource) <=> ~ok
        /\ Turn(i, Download(Eng, i, ok), "download")

ExecSaveStateOnly(sc) ==
    \E i \in DOMAIN execs, ok \in sc.writeOk :
        /\ execs[i].pc = "saveState"
        /\ ok \/ MayFail(i)
        /\ Turn(i, SaveStateOnly(Eng, i, ok), "saveState")

\* ------------------------------------------------------------- diff report
\* Strings are sequences of characters; a token is a string and a chunk is
\* [type, value] with type "equal", "add" or "del" and value a string.

\* the characters the pattern \s matches
IsSpace(c) == c \in {" ", "\n", "\t"}

truncateText(input, maxChars) ==
    IF Len(input) <= maxChars
    THEN [text |-> input, truncated |-> FALSE]
    ELSE [text |-> SubSeq(input, 1, maxChars) \o
                   <<"\n", "\n", "[", ".", ".", ".", "t", "r", "u", "n", "c", "a", "t", "e", "d",
                     " ", "f", "o", "r", " ", "d", "i", "f", "f", " ",
                     "p", "e", "r", "f", "o", "r", "m", "a", "n", "c", "e", ".", ".", ".", "]">>,
          truncated |-> TRUE]

\* input.match(/\s+|\S+/g): the maximal runs of whitespace and of
\* non-whitespace, in order
RECURSIVE tokenizeByWord(_)
tokenizeByWord(input) ==
    IF input = <<>> THEN <<>>
    ELSE LET run == CHOOSE n \in 1..Len(input) :
                        /\ \A i \in 1..n : IsSpace(input[i]) = IsSpace(input[1])
                        /\ n = Len(input) \/ IsSpace(input[n + 1]) # IsSpace(input[1])
         IN  <<SubSeq(input, 1, run)>> \o tokenizeByWord(SubSeq(input, run + 1, Len(input)))

\* mergeChunks that keeps the first value of a run of chunks of one type
RECURSIVE mergeChunksKeepingFirst(_)
mergeChunksKeepingFirst(chunks) ==
    IF Len(chunks) <= 1 THEN chunks
    ELSE LET merged == mergeChunksKeepingFirst(SubSeq(chunks, 1, Len(chunks) - 1))
             previous == merged[Len(merged)]
             chunk == chunks[Len(chunks)]
         IN  IF previous.type = chunk.type THEN merged ELSE Append(merged, chunk)

\* neighbouring chunks of one type become one chunk
RECURSIVE mergeChunks(_)
mergeChunks(chunks) ==
    IF Len(chunks) <= 1 THEN chunks
    ELSE LET merged == mergeChunks(SubSeq(chunks, 1, Len(chunks) - 1))
             previous == merged[Len(merged)]
             chunk == chunks[Len(chunks)]
         IN  IF previous.type = chunk.type
             THEN [merged EXCEPT ![Len(merged)].value = @ \o chunk.value]
             ELSE Append(merged, chunk)

\* map.get(k) ?? default, for a Map held as a function
Get(map, k, default) == IF k \in DOMAIN map THEN map[k] ELSE default

\* lines 126-129: x after the run of equal tokens from (x, y); t holds the
\* two token sequences, whose index 0 is index 1 here
RECURSIVE Snake(_, _, _)
Snake(t, x, y) ==
    IF x < Len(t.before) /\ y < Len(t.after) /\ y >= 0 /\ t.before[x + 1] = t.after[y + 1]
    THEN Snake(t, x + 1, y + 1)
    ELSE x

\* lines 115-123: the x a diagonal k starts from in round d, and whether it
\* comes from diagonal k + 1; Number.NEGATIVE_INFINITY is -1 here, below
\* every x of a frontier
\* (first the variant of line 117 that compares the two neighbours the other
\* way round and so follows the diagonal that got less far)
FromAboveLessFar(frontier, d, k) ==
    k = -d \/ (k # d /\ Get(frontier, k - 1, -1) > Get(frontier, k + 1, -1))

FromAbove(frontier, d, k) ==
    k = -d \/ (k # d /\ Get(frontier, k - 1, -1) < Get(frontier, k + 1, -1))

\* lines 114-138: the diagonals of round d from k on; reached says that the
\* loop left with break outer
RECURSIVE Diagonals(_, _, _, _, _)
Diagonals(t, frontier, d, k, nextFrontier) ==
    IF k > d THEN [frontier |-> nextFrontier, reached |-> FALSE]
    ELSE LET x0 == IF FromAbove(frontier, d, k)
                   THEN Get(frontier, k + 1, 0)
                   ELSE Get(frontier, k - 1, 0) + 1
             x == Snake(t, x0, x0 - k)
             set == (k :> x) @@ nextFrontier
         IN  IF x >= Len(t.before) /\ x - k >= Len(t.after)
             THEN [frontier |-> set, reached |-> TRUE]
             ELSE Diagonals(t, frontier, d, k + 2, set)

\* lines 111-142: the rounds from d on; trace[d + 1] is the frontier of
\* round d, and finalDistance stays 0 when no round reaches the end
RECURSIVE Rounds(_, _, _, _)
Rounds(t, d, frontier, trace) ==
    IF d > Len(t.before) + Len(t.after)
    THEN [trace |-> trace, finalDistance |-> 0]
    ELSE LET round == Diagonals(t, frontier, d, -d, <<>>)
         IN  IF round.reached
             THEN [trace |-> Append(trace, round.frontier), finalDistance |-> d]
             ELSE Rounds(t, d + 1, round.frontier, Append(trace, round.frontier))

\* count tokens of type taken from tokens at positions x, x - 1, ..., newest
\* last: put in front of chunks, which is where reversed.reverse() has them
RECURSIVE Pushed(_, _, _, _, _)
Pushed(type, tokens, x, count, chunks) ==
    IF count <= 0 THEN chunks
    ELSE Pushed(type, tokens, x - 1, count - 1, <<[type |-> type, value |-> tokens[x]]>> \o chunks)

\* tokens[index] ?? "", index counted from 0
TokenAt(tokens, index) == IF index + 1 \in DOMAIN tokens THEN tokens[index + 1] ELSE <<>>

\* lines 148-171: the walk back from (x, y) through rounds d, d - 1, ..., 1
RECURSIVE WalkBack(_, _, _, _, _, _)
WalkBack(t, trace, d, x, y, chunks) ==
    IF d <= 0 THEN [x |-> x, y |-> y, chunks |-> chunks]
    ELSE LET previousFrontier == trace[d]
             k == x - y
             prevK == IF FromAbove(previousFrontier, d, k) THEN k + 1 ELSE k - 1
             prevX == Get(previousFrontier, prevK, 0)
             prevY == prevX - prevK
             equal == Max(0, Min(x - prevX, y - prevY))
             x1 == x - equal
             y1 == y - equal
             c1 == Pushed("equal", t.before, x, equal, chunks)
         IN  IF x1 = prevX
             THEN WalkBack(t, trace, d - 1, x1, y1 - 1,
                           <<[type |-> "add", value |-> TokenAt(t.after, prevY)]>> \o c1)
             ELSE WalkBack(t, trace, d - 1, x1 - 1, y1,
                           <<[type |-> "del", value |-> TokenAt(t.before, prevX)]>> \o c1)

\* lines 173-187: the three closing loops; the result is reversed.reverse()
Closed(t, w) ==
    LET equal == Max(0, Min(w.x, w.y))
        c1 == Pushed("equal", t.before, w.x, equal, w.chunks)
        c2 == Pushed("del", t.before, w.x - equal, w.x - equal, c1)
    IN  Pushed("add", t.after, w.y - equal, IF w.x - equal > 0 THEN 0 ELSE w.y - equal, c2)

\* lines 101-187: the edit script, one chunk per token, before mergeChunks
editScript(beforeTokens, afterTokens) ==
    LET t == [before |-> beforeTokens, after |-> afterTokens]
        forward == Rounds(t, 0, (1 :> 0), <<>>)
    IN  Closed(t, WalkBack(t, forward.trace, forward.finalDistance,
                           Len(beforeTokens), Len(afterTokens), <<>>))

myersWordDiff(beforeTokens, afterTokens) == mergeChunks(editScript(beforeTokens, afterTokens))

\* renderChunksToHtml without its html: the characters counted and whether
\* the loop stopped early; r holds the counts so far
RECURSIVE renderChunksToHtml(_, _, _)
renderChunksToHtml(chunks, maxRenderChars, r) ==
    IF chunks = <<>> THEN r
    ELSE LET chunk == Head(chunks)
             counted == [r EXCEPT
                            !.addedChars = IF chunk.type = "add" THEN @ + Len(chunk.value) ELSE @,
                            !.removedChars = IF chunk.type = "del" THEN @ + Len(chunk.value) ELSE @]
             remaining == maxRenderChars - r.renderedChars
         IN  IF r.renderedChars >= maxRenderChars THEN [counted EXCEPT !.truncated = TRUE]
             ELSE IF Len(chunk.value) > remaining
             THEN [counted EXCEPT !.renderedChars = @ + remaining, !.truncated = TRUE]
             ELSE renderChunksToHtml(Tail(chunks), maxRenderChars,
                                     [counted EXCEPT !.renderedChars = @ + Len(chunk.value)])

\* clamp(1 - changed / den, 0, 1) as the fraction num / den
Similarity(changed, den) ==
    IF den = 0 THEN [num |-> 1, den |-> 1]
    ELSE [num |-> Min(den, Max(0, den - changed)), den |-> den]

\* lines 268-285 of createDiffReport, with the two caps as parameters; the
\* chunks are part of the result so that they can be compared with it
createDiffReport(options, maxCompareChars, maxRenderChars) ==
    LET previous == truncateText(options.previousText, maxCompareChars)
        current == truncateText(options.currentText, maxCompareChars)
        chunks == myersWordDiff(tokenizeByWord(previous.text), tokenizeByWord(current.text))
        rendered == renderChunksToHtml(chunks, maxRenderChars,
                                       [addedChars |-> 0, removedChars |-> 0,
                                        renderedChars |-> 0, truncated |-> FALSE])
    IN  [ chunks |-> chunks,
          similarity |-> Similarity(rendered.addedChars + rendered.removedChars,
                                    Len(previous.text) + Len(current.text)),
          addedChars |-> rendered.addedChars,
          removedChars |-> rendered.removedChars,
          truncated |-> rendered.truncated ]

\* ---------------------------------------------------------- resource names
WINDOWS_RESERVED_NAMES ==
    {<<"c", "o", "n">>, <<"p", "r", "n">>, <<"a", "u", "x">>, <<"n", "u", "l">>}
    \cup {<<"c", "o", "m", d>> : d \in {"1", "2", "3", "4", "5", "6", "7", "8", "9"}}
    \cup {<<"l", "p", "t", d>> : d \in {"1", "2", "3", "4", "5", "6", "7", "8", "9"}}

\* String(n) for a number n >= 0
RECURSIVE NumberToString(_)
NumberToString(n) ==
    LET digit == <<"0", "1", "2", "3", "4", "5", "6", "7", "8", "9">>[(n % 10) + 1]
    IN  IF n < 10 THEN <<digit>> ELSE NumberToString(n \div 10) \o <<digit>>

\* sanitizeFilename, one operator for each of its steps (lines 427-437).
\* rawName.split(/[\\/]/).pop(): what follows the last slash or backslash
LastSegment(rawName) ==
    LET seps == {i \in DOMAIN rawName : rawName[i] \in {"/", "\\"}}
    IN  IF seps = {} THEN rawName
        ELSE SubSeq(rawName, (CHOOSE i \in seps : \A j \in seps : j <= i) + 1, Len(rawName))

\* the characters of the class [<>:"/\\|?*] replaced by "_" (the control
\* characters of the class are not among the inputs)
Replaced(baseName) ==
    [i \in DOMAIN baseName |->
        IF baseName[i] \in {"<", ">", ":", "\"", "/", "\\", "|", "?", "*"} THEN "_" ELSE baseName[i]]

\* replace(/\s+/g, " "): each run of whitespace becomes one space
Squeezed(name) ==
    LET keep == {i \in DOMAIN name : ~(IsSpace(name[i]) /\ i > 1 /\ IsSpace(name[i - 1]))}
    IN  [k \in 1..Cardinality(keep) |->
            LET at == CHOOSE i \in keep : Cardinality({j \in keep : j <= i}) = k
            IN  IF IsSpace(name[at]) THEN " " ELSE name[at]]

\* trim()
Trimmed(name) ==
    LET inner == {i \in DOMAIN name : ~IsSpace(name[i])}
    IN  IF inner = {} THEN <<>>
        ELSE SubSeq(name, CHOOSE i \in inner : \A j \in inner : i <= j,
                          CHOOSE i \in inner : \A j \in inner : j <= i)

\* replace(/^\.+$/, "").slice(0, 255)
Cleaned(name) ==
    IF \A i \in DOMAIN name : name[i] = "." THEN <<>> ELSE SubSeq(name, 1, Min(255, Len(name)))

\* lines 436-437: "_" before a reserved name
Guarded(safeName) ==
    IF toLowerCase(safeName) \in WINDOWS_RESERVED_NAMES THEN <<"_">> \o safeName ELSE safeName

\* cleaned || fallback
OrElse(cleaned, fallback) == IF cleaned = <<>> THEN fallback ELSE cleaned

sanitizeFilename(rawName, fallback) ==
    Guarded(OrElse(Cleaned(Trimmed(Squeezed(Replaced(LastSegment(rawName))))), fallback))

\* path.extname of a name without separators: from the last dot on, and
\* empty when there is no dot, the last dot is the first character, or the
\* name is ".."
extname(name) ==
    LET dots == {i \in DOMAIN name : name[i] = "."}
        startDot == IF dots = {} THEN 0 ELSE CHOOSE i \in dots : \A j \in dots : j <= i
    IN  IF startDot <= 1 \/ name = <<".", ".">> THEN <<>>
        ELSE SubSeq(name, startDot, Len(name))

\* the while loop of lines 1433-1436 that takes candidate as it is
UnusedUnchecked(candidate, stem, ext, suffix, usedNames) == candidate

\* the while loop of lines 1433-1436: the first of candidate, stem-1ext,
\* stem-2ext, ... that usedNames does not hold
RECURSIVE Unused(_, _, _, _, _)
Unused(candidate, stem, ext, suffix, usedNames) ==
    IF candidate \notin usedNames THEN candidate
    ELSE Unused(stem \o <<"-">> \o NumberToString(suffix) \o ext, stem, ext, suffix + 1, usedNames)

\* `resource-${counter}.bin`
Fallback(counter) ==
    <<"r", "e", "s", "o", "u", "r", "c", "e", "-">> \o NumberToString(counter) \o <<".", "b", "i", "n">>

\* lines 1429-1438: the name a resource is saved under, from its sanitized
\* name and the names used so far in the batch
Named(candidate, usedNames) ==
    Unused(candidate, SubSeq(candidate, 1, Len(candidate) - Len(extname(candidate))),
           extname(candidate), 1, usedNames)

\* lines 1420-1442 of downloadChangedResources: the file names given to the
\* extracted resources, in order; baseNames holds for each resource its
\* item.filename ?? getNameFromResourceId(id), counter counts the resources
\* named so far and saved holds their names
RECURSIVE savedNames(_, _, _)
savedNames(baseNames, counter, saved) ==
    IF baseNames = <<>> THEN saved
    ELSE savedNames(Tail(baseNames), counter + 1,
                    Append(saved, Named(sanitizeFilename(Head(baseNames), Fallback(counter + 1)),
                                        Range(saved))))
Constructed(opts) ==
    [ running |-> FALSE, runtimeOptions |-> opts, maxConcurrency |-> EffectiveMaxConcurrency(opts),
      uiTasks |-> NoCfg, legacyOptions |-> <<>>, tasks |-> [id \in Ids |-> 0],
      heap |-> <<>>,
      runQueue |-> <<>>, queuedIds |-> {}, runningCount |-> 0,
      execs |-> <<>>, changes |-> <<>>, reports |-> 0,
      disk |-> [d \in Dirs |-> NoDiskState],
      browser |-> "none", browserManaged |-> FALSE, pagePool |-> NoPool,
      sessions |-> NoSessions,
      started |-> [id \in Ids |-> 0] ]

\* the engine as startControlServer leaves it: constructed, legacy tasks
\* loaded and setUiTasks called with the stored configuration
Starts(e) ==
    /\ running = e.running
    /\ runtimeOptions = e.runtimeOptions
    /\ maxConcurrency = e.maxConcurrency
    /\ uiTasks = e.uiTasks
    /\ legacyOptions = e.legacyOptions
    /\ tasks = e.tasks
    /\ heap = e.heap
    /\ runQueue = e.runQueue
    /\ queuedIds = e.queuedIds
    /\ runningCount = e.runningCount
    /\ execs = e.execs
    /\ changes = e.changes
    /\ reports = e.reports
    /\ disk = e.disk
    /\ browser = e.browser
    /\ browserManaged = e.browserManaged
    /\ pagePool = e.pagePool
    /\ sessions = e.sessions
    /\ ops = 0
    /\ started = e.started
    /\ last = Label("init", UiId)

InitIn(sc) ==
    \E opts \in sc.initRuntime, cfg \in sc.initCfgs, file \in sc.initLegacy, d \in sc.initDisk :
        Starts(Collect(setUiTasks(refreshLegacyTasks([Constructed(opts) EXCEPT !.disk = d], file), cfg)))

NextIn(sc) ==
    \/ SetUiTasks(sc)
    \/ RefreshLegacyTasks(sc)
    \/ Start
    \/ Stop
    \/ UnblockTask
    \/ ApplyRuntimeOptions(sc)
    \/ TimerFires
    \/ ExecStateLoaded
    \/ ExecBrowserReady(sc)
    \/ ExecRunTask(sc)
    \/ ExecSeedBaseline(sc)
    \/ ExecWriteReport(sc)
    \/ ExecSaveNewBaseline(sc)
    \/ ExecSaveStateOnly(sc)

Init == InitIn(UiScope)
Next == NextIn(UiScope)
Spec == Init /\ [][Next]_vars

LegacyInit == InitIn(LegacyScope)
LegacyNext == NextIn(LegacyScope) \/ ExecDownload(LegacyScope)
LegacySpec == LegacyInit /\ [][LegacyNext]_vars

MoveInit == InitIn(MoveScope)
MoveNext == NextIn(MoveScope)
MoveSpec == MoveInit /\ [][MoveNext]_vars

QueueInit == InitIn(QueueScope)
QueueNext ==
    \/ SetUiTasks(QueueScope)
    \/ Start
    \/ TimerFires
    \/ ExecStateLoaded
    \/ ExecBrowserReady(QueueScope)
    \/ ExecRunTask(QueueScope)
    \/ ExecSeedBaseline(QueueScope)
QueueSpec == QueueInit /\ [][QueueNext]_vars

\* One UI task whose configuration the UI edits while the engine is started
\* and stopped any number of times.
StopScope ==
    [ initRuntime |-> {LaunchOne},
      runtimes |-> {LaunchOne},
      initCfgs |-> {UiPlain},
      uiCfgs |-> {UiKeyword, UiDisabled},
      initLegacy |-> {<<>>},
      legacyFiles |-> {<<>>},
      initDisk |-> {EmptyDisk},
      texts |-> {TextX, TextF},
      resLists |-> {NoResources},
      kinds |-> {"ok", "throw"},
      saveResults |-> {"ok"},
      writeOk |-> {TRUE} ]

\* stop() called on a running engine
StopRunning ==
    /\ running
    /\ ops' = ops
    /\ Commit(stop(Eng), Label("stop", UiId))

StopInit == InitIn(StopScope)
StopNext ==
    \/ SetUiTasks(StopScope)
    \/ Start
    \/ StopRunning
    \/ TimerFires
    \/ ExecStateLoaded
    \/ ExecBrowserReady(StopScope)
    \/ ExecRunTask(StopScope)
    \/ ExecSeedBaseline(StopScope)
    \/ ExecWriteReport(StopScope)
    \/ ExecSaveNewBaseline(StopScope)
StopSpec == StopInit /\ [][StopNext]_vars

\* One UI task whose pages can come back with an error status, while the UI
\* saves the task list.
HttpScope ==
    [StopScope EXCEPT !.uiCfgs = {UiPlain, UiDisabled}, !.initDisk = {EmptyDisk, UsedDisk},
                      !.kinds = {"ok", "http"}]

HttpInit == InitIn(HttpScope)
HttpNext ==
    \/ SetUiTasks(HttpScope)
    \/ Start
    \/ TimerFires
    \/ ExecStateLoaded
    \/ ExecBrowserReady(HttpScope)
    \/ ExecRunTask(HttpScope)
    \/ ExecSeedBaseline(HttpScope)
    \/ ExecWriteReport(HttpScope)
    \/ ExecSaveNewBaseline(HttpScope)
HttpSpec == HttpInit /\ [][HttpNext]_vars

\* One UI task whose output directory holds no state.json, one that cannot
\* be parsed, one of a later version or one without a hash, next to a
\* baseline file; the engine can be stopped and started again.
UnparsableDisk ==
    [EmptyDisk EXCEPT !["d1"] = [NoDiskState EXCEPT !.stateFile = "unparsable",
                                                    !.hasBaseline = TRUE, !.baseline = TextF]]
Version2Disk ==
    [UsedDisk EXCEPT !["d1"].version = 2]
NoHashDisk ==
    [UsedDisk EXCEPT !["d1"].textHash = NoHash]

LoadScope ==
    [StopScope EXCEPT !.initDisk = {EmptyDisk, UnparsableDisk, Version2Disk, NoHashDisk, UsedDisk}]

LoadInit == InitIn(LoadScope)
LoadNext ==
    \/ Start
    \/ StopRunning
    \/ TimerFires
    \/ ExecStateLoaded
    \/ ExecBrowserReady(LoadScope)
    \/ ExecRunTask(LoadScope)
    \/ ExecSeedBaseline(LoadScope)
    \/ ExecWriteReport(LoadScope)
    \/ ExecSaveNewBaseline(LoadScope)
LoadSpec == LoadInit /\ [][LoadNext]_vars

\* The built-in task and a legacy task, whose module is loaded again while
\* the engine runs.  The import gives the list the module exports; it
\* throws, or the module exports no array TASKS, and then the error is
\* recorded and the list is empty (lines 561-573).
LegacyModules ==
    { [throws |-> TRUE, isArray |-> FALSE, TASKS |-> <<>>],
      [throws |-> FALSE, isArray |-> FALSE, TASKS |-> <<>>],
      [throws |-> FALSE, isArray |-> TRUE, TASKS |-> <<PlainTasks[1]>>] }

Imported(module) ==
    IF module.throws \/ ~module.isArray
    THEN [options |-> <<>>, lastError |-> TRUE]
    ELSE [options |-> module.TASKS, lastError |-> FALSE]

ReloadScope ==
    [QueueScope EXCEPT !.uiCfgs = {UiPlain}, !.initLegacy = {<<PlainTasks[1]>>},
                       !.legacyFiles = {<<PlainTasks[1]>>}]

\* refreshLegacyTasks() on an engine that includes legacy tasks; errored
\* says that setLastError was called
ReloadLegacyTasks ==
    \E module \in LegacyModules :
        /\ runtimeOptions.includeLegacyTasks
        /\ Counted
        /\ Commit(refreshLegacyTasks(Eng, Imported(module).options),
                  [Label("refreshLegacyTasks", LegacyId) EXCEPT !.errored = Imported(module).lastError])

ReloadInit == InitIn(ReloadScope)
ReloadNext ==
    \/ Start
    \/ ReloadLegacyTasks
    \/ TimerFires
    \/ ExecStateLoaded
    \/ ExecBrowserReady(ReloadScope)
    \/ ExecRunTask(ReloadScope)
    \/ ExecSeedBaseline(ReloadScope)
ReloadSpec == ReloadInit /\ [][ReloadNext]_vars

\* One UI task with a baseline on disk whose page shows one other text from
\* now on; persisting the new baseline can fail, and the UI can save the
\* unchanged task list while a check is in flight.
OnceScope ==
    [StopScope EXCEPT !.uiCfgs = {UiPlain}, !.initDisk = {UsedDisk}, !.texts = {TextX},
                      !.kinds = {"ok"}, !.saveResults = {"ok", "failBaseline", "failState"}]

OnceInit == InitIn(OnceScope)
OnceNext ==
    \/ SetUiTasks(OnceScope)
    \/ Start
    \/ TimerFires
    \/ ExecStateLoaded
    \/ ExecBrowserReady(OnceScope)
    \/ ExecRunTask(OnceScope)
    \/ ExecWriteReport(OnceScope)
    \/ ExecSaveNewBaseline(OnceScope)
OnceSpec == OnceInit /\ [][OnceNext]_vars

\* The change log on its own: records are added one after the other, each
\* saved under a path that carries its time (here the number of the record),
\* and the log is read with the limits a client can send.
Limits ==
    {NaN, Limit(-2), Limit(0), Limit(1), Limit(2), Limit(5), Limit(6),
     Limit(2 * MAX_CHANGE_RECORDS), Limit(2 * MAX_CHANGE_RECORDS + 2), Limit(1002)}

RecordChange ==
    /\ ops < MAX_CHANGE_RECORDS + MaxChanges
    /\ ops' = ops + 1
    /\ changes' = recordChange(Eng, UiId, ops + 1).changes
    /\ last' = Label("recordChange", UiId)
    /\ UNCHANGED <<running, runtimeOptions, maxConcurrency, uiTasks, legacyOptions, tasks, heap,
                   runQueue, queuedIds, runningCount, execs, reports, disk, browser,
                   browserManaged, pagePool, sessions, started>>

GetChanges ==
    \E limit \in Limits :
        /\ last' = [Label("getChanges", UiId) EXCEPT !.ret = getChanges(Eng, limit), !.arg = limit]
        /\ UNCHANGED <<running, runtimeOptions, maxConcurrency, uiTasks, legacyOptions, tasks,
                       heap, runQueue, queuedIds, runningCount, execs, changes, reports, disk,
                       browser, browserManaged, pagePool, sessions, ops, started>>

ChangeLogInit == InitIn(StopScope)
ChangeLogNext == RecordChange \/ GetChanges
ChangeLogSpec == ChangeLogInit /\ [][ChangeLogNext]_vars

\* The diff report on its own: two token sequences of words and spaces are
\* given, the word diff is applied to them, and a report is made of the two
\* texts they spell.
Tokens == {<<"a">>, <<"b", "a">>, <<" ">>}

RECURSIVE TokenSeqs(_)
TokenSeqs(n) ==
    IF n = 0 THEN {<<>>}
    ELSE TokenSeqs(n - 1) \cup {Append(s, tok) : s \in TokenSeqs(n - 1), tok \in Tokens}

\* tokens.join("")
RECURSIVE Join(_)
Join(tokens) == IF tokens = <<>> THEN <<>> ELSE Head(tokens) \o Join(Tail(tokens))

DiffInit ==
    /\ \E before \in TokenSeqs(MaxTokens), after \in TokenSeqs(MaxTokens) :
          last = [Label("input", UiId) EXCEPT !.arg = [beforeTokens |-> before, afterTokens |-> after]]
    /\ running = FALSE
    /\ runtimeOptions = LaunchOne
    /\ maxConcurrency = EffectiveMaxConcurrency(LaunchOne)
    /\ uiTasks = NoCfg
    /\ legacyOptions = <<>>
    /\ tasks = [id \in Ids |-> 0]
    /\ heap = <<>>
    /\ runQueue = <<>>
    /\ queuedIds = {}
    /\ runningCount = 0
    /\ execs = <<>>
    /\ changes = <<>>
    /\ reports = 0
    /\ disk = [d \in Dirs |-> NoDiskState]
    /\ browser = "none"
    /\ browserManaged = FALSE
    /\ pagePool = NoPool
    /\ sessions = NoSessions
    /\ ops = 0
    /\ started = [id \in Ids |-> 0]

MyersWordDiff ==
    /\ last.op = "input"
    /\ last' = [last EXCEPT !.op = "myersWordDiff",
                            !.ret = myersWordDiff(last.arg.beforeTokens, last.arg.afterTokens)]
    /\ UNCHANGED <<running, runtimeOptions, maxConcurrency, uiTasks, legacyOptions, tasks, heap,
                   runQueue, queuedIds, runningCount, execs, changes, reports, disk, browser,
                   browserManaged, pagePool, sessions, ops, started>>

CreateDiffReport ==
    \E maxRenderChars \in {RenderCap, MAX_RENDER_CHARS} :
        /\ last.op = "input"
        /\ last' = [last EXCEPT
                        !.op = "createDiffReport",
                        !.ret = createDiffReport([previousText |-> Join(last.arg.beforeTokens),
                                                  currentText |-> Join(last.arg.afterTokens)],
                                                 MAX_COMPARE_CHARS, maxRenderChars)]
        /\ UNCHANGED <<running, runtimeOptions, maxConcurrency, uiTasks, legacyOptions, tasks,
                       heap, runQueue, queuedIds, runningCount, execs, changes, reports, disk,
                       browser, browserManaged, pagePool, sessions, ops, started>>

DiffNext == MyersWordDiff \/ CreateDiffReport
DiffSpec == DiffInit /\ [][DiffNext]_vars

\* Two tasks checked two at a time in launch mode or one at a time in attach
\* mode, while the engine is stopped and started and the mode is switched.
LaunchTwo == [mode |-> "launch", maxConcurrency |-> 2, includeLegacyTasks |-> TRUE]

BrowserScope ==
    [ QueueScope EXCEPT
        !.initRuntime = {LaunchTwo},
        !.runtimes = {LaunchTwo, AttachTwo},
        !.uiCfgs = {UiPlain},
        !.kinds = {"ok"},
        !.initLegacy = {<<PlainTasks[1]>>},
        !.legacyFiles = {<<PlainTasks[1]>>} ]

BrowserInit == InitIn(BrowserScope)
BrowserNext ==
    \/ Start
    \/ StopRunning
    \/ ApplyRuntimeOptions(BrowserScope)
    \/ TimerFires
    \/ ExecStateLoaded
    \/ ExecBrowserReady(BrowserScope)
    \/ ExecRunTask(BrowserScope)
    \/ ExecSeedBaseline(BrowserScope)
BrowserSpec == BrowserInit /\ [][BrowserNext]_vars

\* One task, checked in launch or attach mode while the engine is stopped
\* and started and applyRuntimeOptions switches the mode.
ModeScope ==
    [ StopScope EXCEPT
        !.initRuntime = {LaunchOne, AttachTwo},
        !.runtimes = {LaunchOne, AttachTwo},
        !.texts = {TextX},
        !.kinds = {"ok"} ]

ModeInit == InitIn(ModeScope)
ModeNext ==
    \/ Start
    \/ StopRunning
    \/ ApplyRuntimeOptions(ModeScope)
    \/ TimerFires
    \/ ExecStateLoaded
    \/ ExecBrowserReady(ModeScope)
    \/ ExecRunTask(ModeScope)
    \/ ExecSeedBaseline(ModeScope)
ModeSpec == ModeInit /\ [][ModeNext]_vars

\* A PagePool on its own, with the pages of its browser told apart: pages
\* are numbered in the order newPage() returns them, idlePages is the array
\* of the pool, state says of each page whether it exists and is open, lent
\* is the set of pages that callers hold and pending the number of calls of
\* acquire() that await newPage(). As in the engine, acquire() is called
\* only while fewer than size callers hold or await a page, and a page may
\* be closed from outside the pool (a tab closed in the browser) at any time.
PoolPages == 1..MaxPages

PagePool(size) ==
    [live |-> TRUE, size |-> size, totalPages |-> 0, idlePages |-> <<>>,
     state |-> [page \in PoolPages |-> "none"], lent |-> {}, pending |-> 0]

\* the step of a PagePool: the pool becomes p and the step is labelled
PoolBecomes(p, op, page) ==
    /\ pagePool' = p
    /\ last' = [Label(op, UiId) EXCEPT !.ret = page]
    /\ UNCHANGED <<running, runtimeOptions, maxConcurrency, uiTasks, legacyOptions, tasks, heap,
                   runQueue, queuedIds, runningCount, execs, changes, reports, disk, browser,
                   browserManaged, sessions, ops, started>>

\* acquire() after idlePages.pop(), lines 293-301: without an open page from
\* the array it throws or goes on to await newPage()
AcquireNew(p) ==
    IF p.totalPages >= p.size THEN PoolBecomes(p, "exhausted", 0)
    ELSE PoolBecomes([p EXCEPT !.pending = @ + 1], "newPage", 0)

\* acquire() up to its return, throw or await (lines 288-299)
PoolAcquire ==
    /\ Cardinality(pagePool.lent) + pagePool.pending < pagePool.size
    /\ IF pagePool.idlePages = <<>> THEN AcquireNew(pagePool)
       ELSE LET existing == pagePool.idlePages[Len(pagePool.idlePages)]
                popped == [pagePool EXCEPT !.idlePages = SubSeq(@, 1, Len(@) - 1)]
            IN  IF pagePool.state[existing] = "open"
                THEN PoolBecomes([popped EXCEPT !.lent = @ \cup {existing}], "acquire", existing)
                ELSE AcquireNew(popped)

\* newPage() resolves: lines 299-301
PoolNewPage ==
    /\ pagePool.pending > 0
    /\ \E page \in PoolPages :
          /\ pagePool.state[page] = "none"
          /\ \A other \in 1..(page - 1) : pagePool.state[other] # "none"
          /\ PoolBecomes([pagePool EXCEPT !.pending = @ - 1, !.totalPages = @ + 1,
                                          !.state[page] = "open", !.lent = @ \cup {page}],
                         "created", page)

\* release(page) by the caller that holds the page, lines 304-310
PoolRelease ==
    \E page \in pagePool.lent :
        IF pagePool.state[page] = "closed"
        THEN PoolBecomes([pagePool EXCEPT !.lent = @ \ {page}, !.totalPages = Max(0, @ - 1)],
                         "release", page)
        ELSE PoolBecomes([pagePool EXCEPT !.lent = @ \ {page}, !.idlePages = Append(@, page)],
                         "release", page)

\* a page is closed outside the pool
PageClosedOutside ==
    \E page \in PoolPages :
        /\ pagePool.state[page] = "open"
        /\ PoolBecomes([pagePool EXCEPT !.state[page] = "closed"], "closed", page)

PoolInit ==
    \E size \in {1, 2} : Starts([Constructed(LaunchOne) EXCEPT !.pagePool = PagePool(size)])
PoolNext == PoolAcquire \/ PoolNewPage \/ PoolRelease \/ PageClosedOutside
PoolSpec == PoolInit /\ [][PoolNext]_vars

\* The unblock route of the control server (part_000, lines 427-444): the
\* engine after POST /api/tasks/<rawId>/unblock and the status of the
\* response. The ids tried have no escapes, decodeURIComponent leaves them.
unblockRoute(e, rawId) ==
    IF rawId = "" THEN [e |-> e, status |-> 400]
    ELSE IF ("ui-" \o rawId) \in Ids /\ unblockTaskResult(e, "ui-" \o rawId)
    THEN [e |-> unblockTask(e, "ui-" \o rawId), status |-> 200]
    ELSE [e |-> e, status |-> 404]

\* the ids a client can put in the path: the id of the UI task as the
\* config store has it, the ids of the status entries, and others
RawIds == {"", "1", "2", "ui-1", "legacy-1", "legacy-2", "ui-legacy-1"}

\* The built-in task and a legacy task, whose pages show the challenge of an
\* anti-bot service, and a client of the control server that posts unblock
\* requests.
ControlScope ==
    [ QueueScope EXCEPT
        !.uiCfgs = {UiPlain},
        !.initLegacy = {<<PlainTasks[1]>>},
        !.legacyFiles = {<<PlainTasks[1]>>},
        !.kinds = {"antibot"} ]

UnblockRequest ==
    \E rawId \in RawIds :
        /\ Counted
        /\ Commit(unblockRoute(Eng, rawId).e,
                  [Label("unblockRequest", UiId) EXCEPT
                        !.arg = rawId, !.ret = unblockRoute(Eng, rawId).status])

ControlInit == InitIn(ControlScope)
ControlNext ==
    \/ Start
    \/ UnblockRequest
    \/ TimerFires
    \/ ExecStateLoaded
    \/ ExecBrowserReady(ControlScope)
    \/ ExecRunTask(ControlScope)
ControlSpec == ControlInit /\ [][ControlNext]_vars

\* A call of a function on its own: Given(input) is the state in which the
\* input has been chosen and nothing has been called, and Returns(op, result)
\* is the step in which op returns result for that input.
Given(input) ==
    /\ last = [Label("input", UiId) EXCEPT !.arg = input]
    /\ running = FALSE
    /\ runtimeOptions = LaunchOne
    /\ maxConcurrency = EffectiveMaxConcurrency(LaunchOne)
    /\ uiTasks = NoCfg
    /\ legacyOptions = <<>>
    /\ tasks = [id \in Ids |-> 0]
    /\ heap = <<>>
    /\ runQueue = <<>>
    /\ queuedIds = {}
    /\ runningCount = 0
    /\ execs = <<>>
    /\ changes = <<>>
    /\ reports = 0
    /\ disk = [d \in Dirs |-> NoDiskState]
    /\ browser = "none"
    /\ browserManaged = FALSE
    /\ pagePool = NoPool
    /\ sessions = NoSessions
    /\ ops = 0
    /\ started = [id \in Ids |-> 0]

Returns(op, result) ==
    /\ last.op = "input"
    /\ last' = [last EXCEPT !.op = op, !.ret = result]
    /\ UNCHANGED <<running, runtimeOptions, maxConcurrency, uiTasks, legacyOptions, tasks, heap,
                   runQueue, queuedIds, runningCount, execs, changes, reports, disk, browser,
                   browserManaged, pagePool, sessions, ops, started>>

\* The snapshot files of one output directory on their own, write by write.
\* A file is absent or holds data; whole says that the data is all the data
\* that the write which produced the file was given.  fs.writeFile opens
\* its target with flag "w", which empties it, and then writes the data piece
\* by piece (here character by character); fs.rename replaces its target in
\* one step.  The process can stop between any two steps, and a new process
\* then saves again.
Absent == [exists |-> FALSE, data |-> <<>>, whole |-> TRUE]
Truncated(data) == [exists |-> TRUE, data |-> <<>>, whole |-> data = <<>>]
Extended(file, data) ==
    [file EXCEPT !.data = SubSeq(data, 1, Len(file.data) + 1),
                 !.whole = (Len(file.data) + 1 = Len(data))]

NoFiles == [baseline |-> Absent, state |-> Absent, stateTmp |-> Absent]

\* the texts of a page: up to two characters
SnapshotTexts == {<<>>} \cup {<<c>> : c \in {"x", "F"}} \cup {<<c, d>> : c, d \in {"x", "F"}}

\* lines 267-275: the payload of state.json, as the pieces written
StateJson(input) == <<"version 1", input.textHash, input.resources>>

\* a step of saveTaskBaselineAndState: the files of the directory become
\* files, and op says where the call is
FilesBecome(files, op, input) ==
    /\ disk' = [disk EXCEPT !["d1"] = files]
    /\ last' = [Label(op, UiId) EXCEPT !.arg = input]
    /\ UNCHANGED <<running, runtimeOptions, maxConcurrency, uiTasks, legacyOptions, tasks, heap,
                   runQueue, queuedIds, runningCount, execs, changes, reports, browser,
                   browserManaged, pagePool, sessions, started>>

\* saveTaskBaseline, line 252: fs.writeFile opens baseline.txt
SaveBaselineOpens ==
    \E text \in SnapshotTexts :
        /\ last.op \in {"init", "saved", "stopped"}
        /\ ops < MaxSaves
        /\ ops' = ops + 1
        /\ FilesBecome([disk["d1"] EXCEPT !.baseline = Truncated(text)], "baseline",
                       [text |-> text, textHash |-> sha256(text), resources |-> NoResources])

\* line 252: fs.writeFile writes the next piece of the text
SaveBaselineWrites ==
    /\ last.op = "baseline"
    /\ ~disk["d1"].baseline.whole
    /\ ops' = ops
    /\ FilesBecome([disk["d1"] EXCEPT !.baseline = Extended(@, last.arg.text)], "baseline", last.arg)

\* writeJsonAtomic, line 182: fs.writeFile opens state.json.tmp
SaveStateOpens ==
    /\ last.op = "baseline"
    /\ disk["d1"].baseline.whole
    /\ ops' = ops
    /\ FilesBecome([disk["d1"] EXCEPT !.stateTmp = Truncated(StateJson(last.arg))], "stateTmp", last.arg)

\* line 182: fs.writeFile writes the next piece of the payload
SaveStateWrites ==
    /\ last.op = "stateTmp"
    /\ ~disk["d1"].stateTmp.whole
    /\ ops' = ops
    /\ FilesBecome([disk["d1"] EXCEPT !.stateTmp = Extended(@, StateJson(last.arg))], "stateTmp", last.arg)

\* line 183: fs.rename(tempPath, filePath)
SaveStateRenames ==
    /\ last.op = "stateTmp"
    /\ disk["d1"].stateTmp.whole
    /\ ops' = ops
    /\ FilesBecome([disk["d1"] EXCEPT !.state = disk["d1"].stateTmp, !.stateTmp = Absent], "saved", last.arg)

\* the process stops while the call is under way; the files stay
ProcessStops ==
    /\ last.op \in {"baseline", "stateTmp"}
    /\ ops' = ops
    /\ FilesBecome(disk["d1"], "stopped", last.arg)

SnapshotInit == Starts([Constructed(LaunchOne) EXCEPT !.disk = [d \in Dirs |-> NoFiles]])
SnapshotNext ==
    \/ SaveBaselineOpens
    \/ SaveBaselineWrites
    \/ SaveStateOpens
    \/ SaveStateWrites
    \/ SaveStateRenames
    \/ ProcessStops
SnapshotSpec == SnapshotInit /\ [][SnapshotNext]_vars

\* The naming of saved resources on its own: the names the page gives its
\* resources are all strings of up to two of the characters below and some
\* longer ones (a reserved name in both cases, a name with an extension, a
\* name that looks like a suffixed one), and a batch has up to MaxBatch
\* resources.
BaseNames ==
    LET chars == {"a", ".", "/", "\\", " ", ":"}
    IN  {<<>>} \cup {<<c>> : c \in chars} \cup {<<c, d>> : c \in chars, d \in chars}
        \cup {<<"c", "o", "n">>, <<"C", "O", "N">>, <<"a", ".", "a">>, <<"a", "-", "1">>,
              <<"a", "-", "1", ".", "a">>, <<".", ".", "/", "a", ":", ".", "a">>}

RECURSIVE Batches(_)
Batches(n) ==
    IF n = 0 THEN {<<>>}
    ELSE Batches(n - 1) \cup {Append(b, name) : b \in Batches(n - 1), name \in BaseNames}

NamesInit == \E batch \in Batches(MaxBatch) : Given(batch)
DownloadChangedResources == Returns("downloadChangedResources", savedNames(last.arg, 0, <<>>))
NamesSpec == NamesInit /\ [][DownloadChangedResources]_vars

\* ------------------------------------------------------------- config store
\* ConfigStore (src/README.md): config.tasks in memory and the tasks of the
\* config file. An optional field is <<>> when undefined and <<v>> when v.
\* A URL is what new URL() makes of it: its protocol, "" when it does not
\* parse. Of a task the fields below are kept (waitSelector, outputDir and
\* the two dates are set like name and enabled, without validation).
WAIT_LOAD_VALUES == {"load", "domcontentloaded", "networkidle0", "networkidle2"}

isValidWaitLoad(value) == value \in WAIT_LOAD_VALUES

isHttpUrl(url) == url.protocol # "" /\ url.protocol \in {"http:", "https:"}

\* intervals are whole numbers here, Math.floor leaves them
normalizeInterval(value, fallback) == IF value <= 0 THEN fallback ELSE Max(1, value)

\* names carry no surrounding whitespace here, trim() leaves them
normalizeName(value, fallback) == IF value = "" THEN fallback ELSE value

\* parseWaitTimeoutSecInput throws below 0 and reads 0 as undefined
WaitTimeoutThrows(value) == value # <<>> /\ value[1] < 0
parseWaitTimeoutSecInput(value) == IF value = <<>> \/ value[1] = 0 THEN <<>> ELSE value

\* the outcome of a call: the store it leaves and whether it threw
Thrown(store) == [store |-> store, threw |-> TRUE]

\* this.save() after a change of this.config.tasks
Saved(configTasks) == [store |-> [config |-> configTasks, file |-> configTasks], threw |-> FALSE]

\* randomUUID(): an id no stored task has
NewTaskId(store) == CHOOSE id \in {"t1", "t2", "t3"} : \A i \in DOMAIN store.config : store.config[i].id # id

addTask(store, input) ==
    IF ~isHttpUrl(input.url) THEN Thrown(store)
    ELSE IF input.waitLoad # <<>> /\ ~isValidWaitLoad(input.waitLoad[1]) THEN Thrown(store)
    ELSE IF WaitTimeoutThrows(input.waitTimeoutSec) THEN Thrown(store)
    ELSE Saved(Append(store.config,
                      [id |-> NewTaskId(store),
                       name |-> normalizeName(input.name, "Untitled task"),
                       url |-> input.url,
                       intervalSec |-> normalizeInterval(input.intervalSec, 60),
                       waitLoad |-> input.waitLoad,
                       waitTimeoutSec |-> parseWaitTimeoutSecInput(input.waitTimeoutSec),
                       enabled |-> IF input.enabled = <<>> THEN TRUE ELSE input.enabled[1]]))

\* The statements of updateTask in their order, each on the task object as
\* the statements before it left it; threw is set by the statement that
\* throws, and the statements after it are not run.
SetName(u, input) ==
    IF input.name = <<>> THEN u
    ELSE [u EXCEPT !.task.name = normalizeName(input.name[1], u.task.name)]

SetUrl(u, input) ==
    IF u.threw \/ input.url = <<>> THEN u
    ELSE IF ~isHttpUrl(input.url[1]) THEN [u EXCEPT !.threw = TRUE]
    ELSE [u EXCEPT !.task.url = input.url[1]]

SetInterval(u, input) ==
    IF u.threw \/ input.intervalSec = <<>> THEN u
    ELSE [u EXCEPT !.task.intervalSec = normalizeInterval(input.intervalSec[1], u.task.intervalSec)]

SetWaitLoad(u, input) ==
    IF u.threw \/ input.waitLoad = <<>> THEN u
    ELSE IF ~isValidWaitLoad(input.waitLoad[1]) THEN [u EXCEPT !.threw = TRUE]
    ELSE [u EXCEPT !.task.waitLoad = input.waitLoad]

SetWaitTimeout(u, input) ==
    IF u.threw \/ input.waitTimeoutSec = <<>> THEN u
    ELSE IF WaitTimeoutThrows(input.waitTimeoutSec) THEN [u EXCEPT !.threw = TRUE]
    ELSE [u EXCEPT !.task.waitTimeoutSec = parseWaitTimeoutSecInput(input.waitTimeoutSec)]

SetEnabled(u, input) ==
    IF u.threw \/ input.enabled = <<>> THEN u
    ELSE [u EXCEPT !.task.enabled = input.enabled[1]]

\* the task object is the one in this.config.tasks: what the statements
\* assigned is in the stored list whether or not the call went on to save()
Updated(store, at, u) ==
    IF u.threw THEN Thrown([store EXCEPT !.config[at] = u.task])
    ELSE Saved([store.config EXCEPT ![at] = u.task])

updateTask(store, id, input) ==
    LET found == {i \in DOMAIN store.config : store.config[i].id = id}
    IN  IF found = {} THEN Thrown(store)
        ELSE Updated(store, CHOOSE i \in found : \A j \in found : i <= j,
                     SetEnabled(SetWaitTimeout(SetWaitLoad(SetInterval(SetUrl(SetName(
                         [task |-> store.config[CHOOSE i \in found : \A j \in found : i <= j],
                          threw |-> FALSE], input), input), input), input), input), input))

\* The store on its own: it holds no task or one task, as save() left it,
\* and one call of addTask or updateTask is made with any of the inputs.
Urls == {[protocol |-> p] : p \in {"https:", "http:", "ftp:", ""}}
Optional(values) == {<<>>} \cup {<<v>> : v \in values}
WaitLoads == {"load", "networkidle2", "invalid-load"}
WaitTimeouts == {-1, 0, 2}

StoredTask ==
    [id |-> "t1", name |-> "Example", url |-> [protocol |-> "https:"], intervalSec |-> 45,
     waitLoad |-> <<"networkidle2">>, waitTimeoutSec |-> <<2>>, enabled |-> TRUE]

Stores == {[config |-> list, file |-> list] : list \in {<<>>, <<StoredTask>>}}

UiTaskInputs ==
    [name : {"", "Good"}, url : Urls, intervalSec : {0, 10}, waitLoad : Optional(WaitLoads),
     waitTimeoutSec : Optional(WaitTimeouts), enabled : Optional({FALSE})]

UiTaskUpdateInputs ==
    [name : Optional({"Renamed"}), url : Optional({[protocol |-> "http:"], [protocol |-> "ftp:"]}),
     intervalSec : Optional({0, 90}), waitLoad : Optional({"load", "invalid-load"}),
     waitTimeoutSec : Optional(WaitTimeouts), enabled : Optional({FALSE})]

ConfigInit ==
    \E store \in Stores :
        \/ \E input \in UiTaskInputs : Given([call |-> "addTask", store |-> store, input |-> input])
        \/ \E id \in {"t1", "t2"}, input \in UiTaskUpdateInputs :
               Given([call |-> "updateTask", store |-> store, id |-> id, input |-> input])

AddTask ==
    /\ last.arg.call = "addTask"
    /\ Returns("addTask", addTask(last.arg.store, last.arg.input))

UpdateTask ==
    /\ last.arg.call = "updateTask"
    /\ Returns("updateTask", updateTask(last.arg.store, last.arg.id, last.arg.input))

ConfigNext == AddTask \/ UpdateTask
ConfigSpec == ConfigInit /\ [][ConfigNext]_vars

\* ------------------------------------------------------------- properties
InFlight(id) == {i \in DOMAIN execs : execs[i].id = id}

\* C1: at every instant the number of executions in flight is at most the
\* effective maxConcurrency, which is 1 in attach mode, under every
\* interleaving of timers, completions, stop(), start(), setUiTasks and
\* applyRuntimeOptions.
C1_InFlightWithinLimit == Len(execs) <= EffectiveMaxConcurrency(runtimeOptions)

\* C2: no task id ever has two executions in flight at the same time.
C2_OneExecutionPerTask == \A id \in Ids : Cardinality(InFlight(id)) <= 1

StatusBlocked(id) == tasks[id] # 0 /\ heap[tasks[id]].stBlocked

\* C3: from the moment a task is marked blocked until unblockTask is called
\* for it, no step places it in the run queue or starts an execution of it,
\* whatever timers fire and whatever setUiTasks, refreshLegacyTasks, stop() or
\* start() calls happen, including a rebuild while the blocking check is in
\* flight.
C3_BlockedNeverRuns ==
    [][\A id \in Ids :
          (StatusBlocked(id) /\ ~(last'.op = "unblockTask" /\ last'.id = id))
          => /\ (id \in Range(runQueue') => id \in Range(runQueue))
             /\ started'[id] = started[id]]_vars

PendingTimer(id) == \E o \in DOMAIN heap : heap[o].id = id /\ heap[o].timer # "none"
Queued(id) == id \in Range(runQueue)

\* C4: at every instant each task is in at most one of the three conditions:
\* it has a pending timer, it is in the run queue, it has an execution in
\* flight.
C4_OneConditionAtATime ==
    \A id \in Ids :
        /\ ~(PendingTimer(id) /\ Queued(id))
        /\ ~(PendingTimer(id) /\ InFlight(id) # {})
        /\ ~(Queued(id) /\ InFlight(id) # {})

\* C5: while the engine is running, a task that is in the registry, enabled
\* and not blocked always has its next execution coming: a timer is armed for
\* it, it is in the run queue or an execution of it is in flight.  A state
\* without any of the three is one from which the task is never executed
\* again, however long the engine keeps running.
C5_NextRunPlanned ==
    \A id \in Ids :
        (running /\ tasks[id] # 0 /\ heap[tasks[id]].enabled
            /\ ~heap[tasks[id]].blocked /\ ~heap[tasks[id]].stBlocked)
        => (PendingTimer(id) \/ Queued(id) \/ InFlight(id) # {})

\* C6: the first check of a task that has no prior persisted state never
\* appends a Change Record and never writes a report, whatever text the page
\* returns.
C6_FirstCheckOnlySeeds ==
    \A i \in DOMAIN execs : execs[i].first => (execs[i].recorded = 0 /\ execs[i].reported = 0)

\* the in-memory baseline text and hash of the registry's task id are the
\* same after the step as before it
BaselineKept(id) ==
    (tasks[id] # 0 /\ tasks'[id] # 0)
    => /\ heap'[tasks'[id]].lastText = heap[tasks[id]].lastText
       /\ heap'[tasks'[id]].lastTextHash = heap[tasks[id]].lastTextHash

C8_ChangedCheckReportsOnce ==
    (/\ last.done /\ ~last.errored
     /\ last.x.compared /\ last.x.textChanged /\ last.x.shouldSave
     /\ tasks[last.id] # 0 /\ heap[tasks[last.id]].enabled
     /\ heap[tasks[last.id]].requiredKeywordLower = NoKeyword)
    => /\ last.x.recorded = 1
       /\ last.x.reported = 1
       /\ heap[tasks[last.id]].lastText = last.x.text
       /\ heap[tasks[last.id]].lastTextHash = sha256(last.x.text)
       /\ disk[heap[tasks[last.id]].outputDir].baseline = last.x.text
       /\ disk[heap[tasks[last.id]].outputDir].textHash = sha256(last.x.text)

\* the check has compared, the hash differs and the keyword filter excludes
\* the change
FilteredChange(x) == x.compared /\ x.textChanged /\ ~x.shouldSave

\* baseline.txt is the same in every directory
BaselineFileKept ==
    \A d \in Dirs : disk'[d].baseline = disk[d].baseline /\ disk'[d].hasBaseline = disk[d].hasBaseline

\* a textHash written to state.json is the hash a task object of id held in
\* memory before the step
OnlyStoredHashWritten(id) ==
    \A d \in Dirs :
        \/ disk'[d].textHash = disk[d].textHash
        \/ \E o \in DOMAIN heap : heap[o].id = id /\ heap[o].lastTextHash = disk'[d].textHash

AntiBotFrame(id) ==
    /\ tasks'[id] # 0
       => /\ heap'[tasks'[id]].stBlocked
          /\ heap'[tasks'[id]].blocked
             => (heap'[tasks'[id]].blockedReason /\ heap'[tasks'[id]].blockedAt)
    /\ changes' = changes /\ reports' = reports /\ disk' = disk
    /\ BaselineKept(id)
    /\ (tasks[id] # 0 /\ tasks'[id] # 0 /\ heap'[tasks'[id]].timer = "backoff")
       => heap[tasks[id]].timer = "backoff"

C11_FailureCountFollowsOutcomes ==
    [][(last'.done /\ last'.op # "antibot" /\ tasks[last'.id] # 0 /\ tasks'[last'.id] # 0)
       => /\ heap'[tasks'[last'.id]].failureCount \in 0..MAX_FAILURE_COUNT
          /\ heap'[tasks'[last'.id]].failureCount =
                IF last'.errored
                THEN Min(MAX_FAILURE_COUNT, heap[tasks[last'.id]].failureCount + 1)
                ELSE 0]_vars

\* C12: when a failed execution arms the retry of a task with interval 60 s,
\* the delay before jitter is min(3600, 60 * 2^N) seconds, N being the
\* number of consecutive failures including this one (at most 6), and it
\* never exceeds 3600 s.
C12_BackoffDoublesPerFailure ==
    [][(last'.done /\ last'.errored /\ last'.delaySec # 0 /\ tasks[last'.id] # 0)
       => /\ last'.delaySec
               = Min(3600, 60 * 2^Min(MAX_FAILURE_COUNT, heap[tasks[last'.id]].failureCount + 1))
          /\ last'.delaySec <= 3600]_vars

\* a is in the run queue ahead of b
QueuedAhead(a, b) ==
    \E i, j \in DOMAIN runQueue : i < j /\ runQueue[i] = a /\ runQueue[j] = b

\* the step starts an execution of id
StartsNow(id) == started'[id] = started[id] + 1

\* what drainQueue asks of a dequeued task, in the state after the step
EligibleAfter(id) ==
    /\ tasks'[id] # 0
    /\ heap'[tasks'[id]].enabled /\ ~heap'[tasks'[id]].blocked /\ ~heap'[tasks'[id]].active

\* C13: when a step starts the execution of a queued task b, every task a
\* that was queued ahead of b is started by the same step, unless a is not
\* eligible (deleted, disabled, blocked or already active) or has been taken
\* out of the queue and given a timer instead.
C13_QueueServedInOrder ==
    [][\A a, b \in Ids :
          (QueuedAhead(a, b) /\ StartsNow(b) /\ ~StartsNow(a))
          => (~EligibleAfter(a) \/ heap'[tasks'[a]].timer # "none")]_vars

\* an execution of the task that was queued first has just started while
\* the task queued behind it is still waiting
C13_FirstQueuedStarted ==
    \E a, b \in Ids :
        /\ a # b /\ runQueue = <<b>>
        /\ last.done /\ last.id \notin {a, b}
        /\ \E i \in DOMAIN execs : execs[i].id = a /\ execs[i].pc \in {"load", "launching", "page"}
        /\ started[a] = 1 /\ started[b] = 0

\* the step is a call of a public method that rebuilds the registry
RebuildStep == last'.op \in {"setUiTasks", "refreshLegacyTasks", "applyRuntimeOptions"}

\* the registry holds id before and after the step
Kept(id) == tasks[id] # 0 /\ tasks'[id] # 0

Moved(id) ==
    RebuildStep /\ Kept(id) /\ heap'[tasks'[id]].outputDir # heap[tasks[id]].outputDir

\* the task of id has no baseline in memory after the step and will load
\* the state of its directory in its next check
BaselineDropped(id) ==
    /\ heap'[tasks'[id]].lastText = NoText
    /\ heap'[tasks'[id]].lastTextHash = NoHash
    /\ heap'[tasks'[id]].lastResources = NoResources
    /\ ~heap'[tasks'[id]].stateLoaded

AnyTimerPending == \E o \in DOMAIN heap : heap[o].timer # "none"

\* no execution starts in the step
NothingStarts == \A id \in Ids : started'[id] = started[id]

\* C16: once stop() has run and until start() runs again, no timer is
\* pending for any task, the run queue is empty and no execution starts.
C16_StoppedEngineIsQuiet ==
    [][~running'
       => /\ ~AnyTimerPending'
          /\ runQueue' = <<>> /\ queuedIds' = {}
          /\ (~running => NothingStarts)]_vars

\* the part of C16 the code keeps: a stopped engine has an empty queue and
\* starts nothing
C16_StoppedEngineStartsNothing ==
    [][~running'
       => /\ runQueue' = <<>> /\ queuedIds' = {}
          /\ (~running => NothingStarts)]_vars

\* the engine's state apart from the bookkeeping of the model (ops, last)
EngineState ==
    <<running, runtimeOptions, maxConcurrency, uiTasks, legacyOptions, tasks, heap, runQueue,
      queuedIds, runningCount, execs, changes, reports, disk, browser, browserManaged,
      pagePool, sessions, started>>

\* C17: unblockTask(id) on a blocked task of the registry returns true and
\* clears the blocked flag, its reason and its timestamp; when the engine is
\* running and the task is enabled the task then has a pending timer and
\* nothing that would keep the timer's callback from queueing it (it is not
\* active, not blocked, not queued). On an id that is not in the registry
\* it returns false and changes nothing.
C17_UnblockClearsAndRearms ==
    [][\A id \in Ids :
          (last'.op = "unblockTask" /\ last'.id = id)
          => /\ tasks[id] = 0 => (~last'.ret /\ UNCHANGED EngineState)
             /\ (tasks[id] # 0 /\ heap[tasks[id]].blocked)
                => /\ last'.ret
                   /\ tasks'[id] # 0
                   /\ ~heap'[tasks'[id]].blocked
                   /\ ~heap'[tasks'[id]].blockedReason
                   /\ ~heap'[tasks'[id]].blockedAt
                   /\ ~heap'[tasks'[id]].stBlocked
                   /\ (running /\ heap[tasks[id]].enabled)
                      => /\ heap'[tasks'[id]].timer = "250ms"
                         /\ ~heap'[tasks'[id]].active
                         /\ ~Queued(id)']_vars

\* unblockTask has just re-armed a task that an anti-bot page had blocked
C17_BlockedTaskRearmed ==
    /\ last.op = "unblockTask" /\ last.ret
    /\ running
    /\ tasks[last.id] # 0
    /\ heap[tasks[last.id]].blockedAt = FALSE
    /\ heap[tasks[last.id]].timer = "250ms"
    /\ heap[tasks[last.id]].failureCount = 0
    /\ started[last.id] = 1 /\ execs = <<>>

\* unblockTask has been called with an id the registry does not hold
C17_UnknownIdRefused == last.op = "unblockTask" /\ ~last.ret /\ tasks[last.id] = 0

\* the records of log in the order of the log, newest first: each was saved
\* later than the one after it
NewestFirst(log) == \A i \in 1..(Len(log) - 1) : log[i].kind > log[i + 1].kind

\* the step adds one record at the front and drops nothing but the record
\* at the end of a full log
OnlyOldestEvicted ==
    /\ Len(changes') = Min(MAX_CHANGE_RECORDS, Len(changes) + 1)
    /\ changes'[1].kind = ops'
    /\ Tail(changes') = SubSeq(changes, 1, Len(changes') - 1)

\* the number of records getChanges returns for limit: limit floored and
\* clamped to 1..500, and no more than the log holds; none for NaN
Returned(limit) ==
    IF limit.nan THEN 0
    ELSE Min(Max(1, Min(500, floor(limit.halves))), Len(changes))

\* C18: the change log never holds more than 300 records, is ordered newest
\* first, and a new record evicts only the oldest record of a full log;
\* getChanges(limit) returns the newest min(n, size) records in the log's
\* order, where n is limit rounded down and clamped to 1..500 (so a limit
\* below 1 still returns the newest record), and returns nothing for NaN.
C18_LogCappedNewestFirst ==
    [][/\ Len(changes') <= MAX_CHANGE_RECORDS
       /\ NewestFirst(changes')
       /\ last'.op = "recordChange" => OnlyOldestEvicted
       /\ last'.op = "getChanges"
          => last'.ret = SubSeq(changes, 1, Returned(last'.arg))]_vars

\* the log is full, two records have been evicted, and it is read with
\* limit 0
C18_FullLogRead ==
    /\ last.op = "getChanges" /\ last.arg = Limit(0)
    /\ Len(changes) = MAX_CHANGE_RECORDS
    /\ changes[1].kind = MAX_CHANGE_RECORDS + 2
    /\ Len(last.ret) = 1

\* C18 as stated: getChanges(limit) returns min(limit, size) records
C18_GetChangesReturnsLimit ==
    [][(last'.op = "getChanges" /\ ~last'.arg.nan /\ last'.arg.halves >= 0)
       => Len(last'.ret) = Min(floor(last'.arg.halves), Len(changes))]_vars

\* the values of the chunks of the given types, concatenated in order
RECURSIVE Concatenated(_, _)
Concatenated(chunks, types) ==
    IF chunks = <<>> THEN <<>>
    ELSE (IF Head(chunks).type \in types THEN Head(chunks).value ELSE <<>>)
         \o Concatenated(Tail(chunks), types)

\* C19: for token sequences A and B, the equal and added chunks of the
\* word diff concatenated in order spell B, and the equal and removed chunks
\* spell A.
C19_DiffSpellsBothSides ==
    last.op = "myersWordDiff"
    => /\ Concatenated(last.ret, {"equal", "add"}) = Join(last.arg.afterTokens)
       /\ Concatenated(last.ret, {"equal", "del"}) = Join(last.arg.beforeTokens)

\* the diff of two different sequences of three tokens has chunks of all
\* three types, one of them made of more than one token
C19_DiffWithAllChunkTypes ==
    /\ last.op = "myersWordDiff"
    /\ Len(last.arg.beforeTokens) = MaxTokens /\ Len(last.arg.afterTokens) = MaxTokens
    /\ {last.ret[i].type : i \in DOMAIN last.ret} = {"equal", "add", "del"}
    /\ \E i \in DOMAIN last.ret : Len(last.ret[i].value) > 1

\* the number of characters in the chunks of the given type
TotalChars(chunks, type) == Len(Concatenated(chunks, {type}))

\* the report's similarity is the fraction 1 - changed / den
IsOneMinus(similarity, changed, den) == similarity.num * den = (den - changed) * similarity.den

\* the similarity of the report in last is within [0, 1], is 1 for equal
\* texts and, when checked is true, is 1 - (added + removed) / (length of
\* previous + length of current) over all chunks of the diff
SimilarityAsDefined(checked) ==
    LET previous == Join(last.arg.beforeTokens)
        current == Join(last.arg.afterTokens)
        report == last.ret
    IN  /\ 0 <= report.similarity.num /\ report.similarity.num <= report.similarity.den
        /\ previous = current => report.similarity.num = report.similarity.den
        /\ (checked /\ previous # current)
           => IsOneMinus(report.similarity,
                         TotalChars(report.chunks, "add") + TotalChars(report.chunks, "del"),
                         Len(previous) + Len(current))

\* C20: the reported similarity is within [0, 1], is 1 when previous and
\* current text are identical, and is 1 - (addedChars + removedChars) /
\* (len(previous) + len(current)) over all added and removed chunks of the
\* diff, whether or not the rendered output was truncated.
C20_SimilarityCountsEveryChunk ==
    last.op = "createDiffReport" => SimilarityAsDefined(TRUE)

\* the part of C20 the code keeps: the same with the formula required only
\* of a report whose rendering was not truncated
C20_SimilarityOfWholeRendering ==
    last.op = "createDiffReport" => SimilarityAsDefined(~last.ret.truncated)

\* a report whose rendering was truncated before a changed chunk
C20_ChangeBeyondRenderCap ==
    /\ last.op = "createDiffReport" /\ last.ret.truncated
    /\ last.ret.addedChars < TotalChars(last.ret.chunks, "add")

\* C21: the file names one batch of saved resources gets are pairwise
\* distinct, and each is non-empty, holds no slash or backslash and is not
\* a reserved device name in any letter case.
C21_SavedNamesDistinctAndSafe ==
    last.op = "downloadChangedResources"
    => /\ Len(last.ret) = Len(last.arg)
       /\ \A i, j \in DOMAIN last.ret : i # j => last.ret[i] # last.ret[j]
       /\ \A i \in DOMAIN last.ret :
             /\ last.ret[i] # <<>>
             /\ \A k \in DOMAIN last.ret[i] : last.ret[i][k] \notin {"/", "\\"}
             /\ toLowerCase(last.ret[i]) \notin WINDOWS_RESERVED_NAMES

\* two resources with the same name and extension were saved, the second
\* under a name with a numeric suffix before the extension
C21_SecondNameSuffixed ==
    /\ last.op = "downloadChangedResources"
    /\ last.arg = <<<<"a", ".", "a">>, <<"/", "a", ".", "a">>>> \/ last.arg = <<<<"a", ".", "a">>, <<"a", ".", "a">>>>
    /\ last.ret = <<<<"a", ".", "a">>, <<"a", "-", "1", ".", "a">>>>

\* C22: a task add or update that validation rejects (bad URL, bad waitLoad,
\* bad waitTimeoutSec, unknown id) leaves the stored task list as it was
\* before the call, in memory and in the config file.
C22_RejectedCallLeavesStore ==
    last.op \in {"addTask", "updateTask"} /\ last.ret.threw => last.ret.store = last.arg.store

\* C22, the part the code keeps: the config file is as before the call
C22_RejectedCallLeavesFile ==
    last.op \in {"addTask", "updateTask"} /\ last.ret.threw => last.ret.store.file = last.arg.store.file

\* C22, the part the code keeps: a rejected addTask leaves the whole store
C22_RejectedAddLeavesStore ==
    last.op = "addTask" /\ last.ret.threw => last.ret.store = last.arg.store

\* C22: an update with a new name and a URL that is not http(s) was rejected
C22_RenameWithBadUrlRejected ==
    /\ last.op = "updateTask"
    /\ last.ret.threw
    /\ last.arg.store.config # <<>>
    /\ last.arg.id = "t1"
    /\ last.arg.input.name = <<"Renamed">>
    /\ last.arg.input.url = <<[protocol |-> "ftp:"]>>

\* the check of id that is in flight captured an object that a rebuild has
\* since replaced in the registry by one with the same output directory
ReplacedInFlight(id) ==
    /\ tasks[id] # 0
    /\ \E i \in DOMAIN execs :
          /\ execs[i].id = id
          /\ execs[i].obj # tasks[id]
          /\ heap[execs[i].obj].outputDir = heap[tasks[id]].outputDir

\* C23: when a rebuild has replaced the registry entry of a task whose check
\* is in flight, keeping id and output directory, then once the check
\* completes the registry entry of the task is neither active nor running,
\* its baseline hash is the persisted one, its failureCount is 0 after a
\* success and one more after a failure, and it is blocked after anti-bot
\* detection.
C23_RegistryReflectsOutcome ==
    [][(last'.done /\ ReplacedInFlight(last'.id) /\ tasks'[last'.id] # 0)
       => /\ ~heap'[tasks'[last'.id]].active
          /\ ~heap'[tasks'[last'.id]].stRunning
          /\ heap'[tasks'[last'.id]].lastTextHash = disk'[heap'[tasks'[last'.id]].outputDir].textHash
          /\ last'.op # "antibot"
             => heap'[tasks'[last'.id]].failureCount =
                    IF last'.errored
                    THEN Min(MAX_FAILURE_COUNT, heap[tasks[last'.id]].failureCount + 1)
                    ELSE 0
          /\ last'.op = "antibot"
             => heap'[tasks'[last'.id]].blocked /\ heap'[tasks'[last'.id]].stBlocked]_vars

\* C23, one part at a time
C23_EntryNotActive ==
    [][(last'.done /\ ReplacedInFlight(last'.id) /\ tasks'[last'.id] # 0)
       => ~heap'[tasks'[last'.id]].active]_vars

C23_EntryNotRunning ==
    [][(last'.done /\ ReplacedInFlight(last'.id) /\ tasks'[last'.id] # 0)
       => ~heap'[tasks'[last'.id]].stRunning]_vars

C23_EntryHasPersistedHash ==
    [][(last'.done /\ ReplacedInFlight(last'.id) /\ tasks'[last'.id] # 0)
       => heap'[tasks'[last'.id]].lastTextHash = disk'[heap'[tasks'[last'.id]].outputDir].textHash]_vars

C23_EntryBlockedAfterAntiBot ==
    [][(last'.done /\ last'.op = "antibot" /\ ReplacedInFlight(last'.id) /\ tasks'[last'.id] # 0)
       => heap'[tasks'[last'.id]].blocked /\ heap'[tasks'[last'.id]].stBlocked]_vars

\* the step takes id out of the registry
Deleted(id) == tasks[id] # 0 /\ tasks'[id] = 0

\* the step replaces an enabled entry of id by a disabled one
Disabled(id) ==
    /\ tasks[id] # 0 /\ heap[tasks[id]].enabled
    /\ tasks'[id] # 0 /\ ~heap'[tasks'[id]].enabled

\* after the step no timer is pending for id, on any object
NoTimerAfter(id) == \A o \in DOMAIN heap' : heap'[o].id = id => heap'[o].timer = "none"

\* after the step id is not in the run queue
NotQueuedAfter(id) == id \notin queuedIds' /\ id \notin Range(runQueue')

\* C24: when a rebuild of the registry deletes or disables a task, the
\* pending timer of the task is cancelled and the task is taken out of the
\* run queue by the same call, so that no timer armed for it before the
\* rebuild is left to fire.
C24_RemovedTaskHasNoTimer ==
    [][RebuildStep
       => \A id \in Ids : (Deleted(id) \/ Disabled(id)) => (NoTimerAfter(id) /\ NotQueuedAfter(id))]_vars

\* C24, the parts the code keeps: a deleted task has no timer and is not
\* queued, a disabled task is not queued
C24_DeletedTaskHasNoTimer ==
    [][RebuildStep => \A id \in Ids : Deleted(id) => (NoTimerAfter(id) /\ NotQueuedAfter(id))]_vars

C24_DisabledTaskNotQueued ==
    [][RebuildStep => \A id \in Ids : Disabled(id) => NotQueuedAfter(id)]_vars

\* the step is a turn of the check of a task that is no longer in the registry
VanishedCheckStep ==
    /\ last'.op \in {"stateLoaded", "browserReady", "ok", "antibot", "http", "throw",
                     "seed", "report", "save", "download", "saveState"}
    /\ tasks[last'.id] = 0 /\ tasks'[last'.id] = 0

\* C25: when a task is deleted from the registry while its check is in
\* flight, the check runs on, and it appends no change record for the task
\* and arms no timer for it.
C25_VanishedTaskResultDiscarded ==
    [][VanishedCheckStep => (changes' = changes /\ NoTimerAfter(last'.id))]_vars

\* C25, the part the code keeps: no timer is armed for the vanished task
C25_VanishedTaskNotRearmed ==
    [][VanishedCheckStep => NoTimerAfter(last'.id)]_vars

\* the check of a vanished task has completed
C25_VanishedCheckCompleted ==
    last.done /\ tasks[last.id] = 0 /\ last.op \in {"ok", "report", "save", "download", "saveState", "seed"}

\* the number of open sessions that the engine created
OpenSessions == sessions.launched + sessions.attached

\* C26: from the completion of stop() to the next start() the engine holds
\* no browser session; a check that was in flight when stop() was called
\* does not launch or connect a browser afterwards.
C26_StoppedEngineHasNoBrowser == ~running => (browser = "none" /\ OpenSessions = 0)

\* C26, one part at a time: the handle, and the sessions opened while stopped
C26_StoppedEngineHoldsNoHandle == ~running => browser = "none"

C26_StoppedEngineOpensNoSession ==
    [][(~running /\ ~running') => OpenSessions' <= OpenSessions]_vars

\* C27: the engine has at most one browser session at a time, the one it
\* holds: checks that find no session together create one session, and no
\* session that the engine created is open without the engine holding it.
C27_OneSessionAndItIsHeld ==
    IF browser = "none" THEN OpenSessions = 0
    ELSE OpenSessions = 1 /\ sessions[browser] = 1

\* C27, the part that teardown keeps: the session the engine holds is
\* released by stop()
C27_TeardownReleasesHeldSession ==
    [][(browser # "none" /\ browser' = "none") => OpenSessions' = OpenSessions - 1]_vars

\* the step tears down a session that the engine holds
TeardownStep == browser # "none" /\ browser' = "none"

C28_LaunchedSessionTornDown ==
    /\ last.op = "stop"
    /\ runtimeOptions.mode = "launch"
    /\ browser = "none"
    /\ \E i \in DOMAIN execs : execs[i].stale /\ execs[i].hasPage
    /\ sessions = NoSessions

\* the pages of the pool that are open after the step
OpenPagesAfter == {page \in PoolPages : pagePool'.state[page] = "open"}

\* C29: a page pool never has more open pages than its size, never lends a
\* page that a caller already holds, and acquire() returns a page instead of
\* throwing 'Page pool exhausted' whenever fewer than size pages are lent,
\* also after an idle page was closed outside the pool.
C29_PoolLendsWithinSize ==
    [][/\ Cardinality(OpenPagesAfter) <= pagePool'.size
       /\ last'.op \in {"acquire", "created"} => last'.ret \notin pagePool.lent
       /\ last'.op # "exhausted"]_vars

\* C29, the parts the code keeps
C29_OpenPagesWithinSize ==
    [][Cardinality(OpenPagesAfter) <= pagePool'.size]_vars

C29_PageLentOnce ==
    [][/\ last'.op \in {"acquire", "created"} => last'.ret \notin pagePool.lent
       /\ \A i, j \in DOMAIN pagePool'.idlePages :
             /\ pagePool'.idlePages[i] \notin pagePool'.lent
             /\ i # j => pagePool'.idlePages[i] # pagePool'.idlePages[j]]_vars

\* C29, the part that fails: acquire() with fewer than size pages lent
C29_AcquireReturnsPage ==
    [][last'.op # "exhausted"]_vars

\* C29: acquire() has thrown although the pool has lent no page
C29_ExhaustedWithNothingLent ==
    last.op = "exhausted" /\ pagePool.lent = {} /\ pagePool.pending = 0

\* some unblock request returns the task id to scheduling: it is answered
\* with 200 and the registry entry of id is no longer blocked
CanBeUnblocked(id) ==
    \E rawId \in RawIds :
        /\ unblockRoute(Eng, rawId).status = 200
        /\ ~unblockRoute(Eng, rawId).e.heap[tasks[id]].blocked

\* C30: every blocked task, UI or legacy, can be returned to scheduling by
\* the unblock action of the control API: some request reaches unblockTask
\* with the registry id of the task.
C30_EveryBlockedTaskCanBeUnblocked ==
    \A id \in Ids : (tasks[id] # 0 /\ heap[tasks[id]].blocked) => CanBeUnblocked(id)

\* C30, the part the code keeps: a blocked UI task can be unblocked
C30_BlockedUiTaskCanBeUnblocked ==
    (tasks[UiId] # 0 /\ heap[tasks[UiId]].blocked) => CanBeUnblocked(UiId)

\* C30: a request has unblocked the blocked UI task
C30_UiTaskUnblockedByRequest ==
    /\ last.op = "unblockRequest" /\ last.ret = 200 /\ last.arg = "1"
    /\ tasks[UiId] # 0 /\ ~heap[tasks[UiId]].blocked /\ heap[tasks[UiId]].timer # "none"

\* the step is the end of a check that never was a content change: change
\* log, reports, persisted state and the baseline in memory are untouched
NoContentChange(id) ==
    /\ changes' = changes /\ reports' = reports /\ disk' = disk
    /\ BaselineKept(id)

\* the registry's task id can be re-armed after the step
Rearmable(id) ==
    /\ running' /\ tasks'[id] # 0
    /\ heap'[tasks'[id]].enabled /\ ~heap'[tasks'[id]].blocked

\* C31: a check whose page comes back with a final response status that is
\* not 2xx/3xx (and is no anti-bot page) ends as a failure of the task: the
\* execution ends errored, failureCount of the task is one more than before
\* (up to the cap), a backoff retry is armed for a task that can be re-armed,
\* and the check is no content change: baseline, persisted state, reports
\* and change log are untouched.
C31_HttpErrorIsTaskFailure ==
    [][last'.op = "http"
       => /\ last'.done /\ last'.errored
          /\ NoContentChange(last'.id)
          /\ (tasks[last'.id] # 0 /\ tasks'[last'.id] # 0)
             => heap'[tasks'[last'.id]].failureCount
                    = Min(MAX_FAILURE_COUNT, heap[tasks[last'.id]].failureCount + 1)
          /\ Rearmable(last'.id) => heap'[tasks'[last'.id]].timer = "backoff"]_vars

\* C31, the part about content: an error status never is a content change
C31_HttpErrorNeverContentChange ==
    [][last'.op = "http" => (last'.done /\ last'.errored /\ NoContentChange(last'.id))]_vars

\* C31, the part about the retry
C31_HttpErrorArmsBackoff ==
    [][(last'.op = "http" /\ Rearmable(last'.id)) => heap'[tasks'[last'.id]].timer = "backoff"]_vars

\* a check of a task with a baseline met an error status on a page whose
\* text differs from the baseline
C31_HttpErrorOnChangedPage ==
    /\ last.op = "http" /\ last.done /\ last.errored
    /\ tasks[last.id] # 0
    /\ heap[tasks[last.id]].lastTextHash = sha256(TextF)
    /\ heap[tasks[last.id]].timer = "backoff"
    /\ heap[tasks[last.id]].failureCount = 1

\* C32: saving a snapshot writes baseline.txt first and state.json second,
\* and at no point, a stop of the process between or during the writes
\* included, does baseline.txt or state.json hold a partially written
\* content.
C32_NoPartialSnapshotFile ==
    /\ disk["d1"].baseline.whole
    /\ disk["d1"].state.whole
    /\ last.op = "stateTmp" => (disk["d1"].baseline.exists /\ disk["d1"].baseline.data = last.arg.text)

\* C32, the part about the descriptor: state.json is never partial
C32_DescriptorNeverPartial == disk["d1"].state.whole

\* C32, the part about the order: the descriptor is written after the
\* baseline it describes
C32_BaselineWrittenFirst ==
    last.op \in {"stateTmp", "saved"}
    => (disk["d1"].baseline.exists /\ disk["d1"].baseline.data = last.arg.text)

\* the process stopped while a second snapshot was being saved
C32_StoppedDuringSecondSave ==
    /\ last.op = "stopped"
    /\ disk["d1"].state.exists
    /\ disk["d1"].state.data # StateJson(last.arg)

\* state.json of directory d is absent, unparsable, of another version than
\* 1 or without a hash
Unusable(d) ==
    \/ disk[d].stateFile # "json"
    \/ disk[d].version # 1
    \/ disk[d].textHash = NoHash

\* the load of an unusable state.json gives no baseline and is no failure:
\* the baseline in memory stays as it is and the check goes on to take a
\* page; unless that fails in the same turn, failureCount keeps its value
LoadGivesNoBaseline ==
    (last'.op = "stateLoaded" /\ Unusable("d1"))
    => /\ last'.x.noBaseline
       /\ BaselineKept(last'.id)
       /\ Len(execs') = Len(execs)
          => \A o \in DOMAIN heap : o \in DOMAIN heap' => heap'[o].failureCount = heap[o].failureCount

\* C33: loading a state.json that is absent, unparsable or of an unknown
\* version gives no baseline and is no failure of the task (failureCount is
\* not raised), and the check that loaded it, when its page is read, seeds
\* a new baseline and neither writes a report nor appends a Change Record.
C33_UnusableStateMeansFirstRun ==
    [][/\ LoadGivesNoBaseline
       /\ (last'.x.noBaseline /\ last'.op = "ok") => last'.x.pc = "seed"
       /\ last'.x.noBaseline => (last'.x.recorded = 0 /\ last'.x.reported = 0)]_vars

\* C33, the part about the Change Record
C33_NoRecordAfterEmptyLoad ==
    [][last'.x.noBaseline => (last'.x.recorded = 0 /\ last'.x.reported = 0)]_vars

\* C33, the part about the load
C33_LoadGivesNoBaseline == [][LoadGivesNoBaseline]_vars

\* the check of a task whose state.json could not be parsed has seeded a
\* new baseline
C33_SeededOverUnparsableState ==
    /\ last.op = "seed" /\ last.done /\ ~last.errored
    /\ last.x.noBaseline
    /\ disk["d1"].stateFile = "json" /\ disk["d1"].textHash = sha256(TextX)
    /\ changes = <<>> /\ reports = 0

\* the ids of current that are not in stored, when current is not the
\* shorter list
NewIds(current, stored) ==
    IF Len(current) >= Len(stored)
    THEN SelectSeq(current, LAMBDA r : r \notin Range(stored))
    ELSE <<>>

\* the step takes a check into resource tracking: the page was compared
\* without a text change to save, or the new baseline was saved
ReachesResourceTracking ==
    /\ last'.x.compared /\ ~last'.errored
    /\ \/ last'.op = "ok" /\ ~last'.x.shouldSave
       \/ last'.op = "save"

\* the resources that the check goes on to fetch after the step
Fetched == IF last'.x.pc = "download" THEN last'.x.todo ELSE <<>>

\* the resources fetched are the ids that are new against the list stored on
\* the task object of some check of the task that was at this point
FetchedAreTheNewIds ==
    ReachesResourceTracking
    => \E i \in DOMAIN execs :
          /\ execs[i].id = last'.id
          /\ execs[i].pc = (IF last'.op = "ok" THEN "page" ELSE "save")
          /\ Fetched = NewIds(last'.x.res, heap[execs[i].obj].lastResources)

\* the check that reached resource tracking has completed: the stored list
\* of the task, in memory and persisted, is the current list
StoredListIsCurrent ==
    (last'.done /\ ~last'.errored /\ last'.x.compared /\ tasks'[last'.id] # 0)
    => /\ heap'[tasks'[last'.id]].lastResources = last'.x.res
       /\ disk'[heap'[tasks'[last'.id]].outputDir].resources = last'.x.res

\* C34: in every check that reaches resource tracking the resources fetched
\* are exactly the ids of the current list that are absent from the stored
\* list, computed only when the current list is not shorter than the stored
\* one, and after every such check the stored resource-id list of the task,
\* in memory and persisted, equals the current list.
C34_NewResourcesFetchedListStored ==
    [][FetchedAreTheNewIds /\ StoredListIsCurrent]_vars

\* C34, the part about the resources fetched
C34_FetchedAreTheNewIds == [][FetchedAreTheNewIds]_vars

\* C34, the persisted part of the stored list
C34_PersistedListIsCurrent ==
    [][(last'.done /\ ~last'.errored /\ last'.x.compared /\ tasks'[last'.id] # 0)
       => disk'[heap'[tasks'[last'.id]].outputDir].resources = last'.x.res]_vars

\* a check with a new resource id has fetched it and completed
C34_NewResourceFetched ==
    /\ last.op = "download" /\ last.done /\ ~last.errored
    /\ last.x.compared /\ last.x.res = <<"a">>
    /\ disk[LegacyDir].resources = <<"a">>

\* the step is a load of the legacy module that failed
LegacyLoadFailed == last'.op = "refreshLegacyTasks" /\ last'.errored

\* the runtime state of the registry's task id is the same after the step
RuntimeStateKept(id) ==
    /\ tasks[id] # 0 /\ tasks'[id] # 0
    /\ BaselineKept(id)
    /\ \A f \in {"lastResources", "stateLoaded", "failureCount", "active", "blocked", "enabled"} :
          heap'[tasks'[id]][f] = heap[tasks[id]][f]

\* the scheduling of the registry's task id is the same after the step: its
\* pending timer and its place in the run queue
SchedulingKept(id) ==
    /\ tasks[id] # 0 /\ tasks'[id] # 0
    /\ heap'[tasks'[id]].timer = heap[tasks[id]].timer
    /\ (id \in queuedIds') = (id \in queuedIds)
    /\ \A o \in DOMAIN heap' : (heap'[o].id = id /\ heap'[o].timer # "none") => o = tasks'[id]

\* C35: when loading the legacy task file fails, the error is recorded at
\* engine level, the legacy task list becomes empty, and the built-in task,
\* its runtime state and its scheduling are as they were.
C35_FailedLegacyLoadLeavesBuiltIn ==
    [][LegacyLoadFailed
       => /\ legacyOptions' = <<>> /\ tasks'[LegacyId] = 0
          /\ RuntimeStateKept(UiId)
          /\ SchedulingKept(UiId)]_vars

\* C35, the part about the legacy list
C35_LegacyListEmptied ==
    [][LegacyLoadFailed => (legacyOptions' = <<>> /\ tasks'[LegacyId] = 0)]_vars

\* C35, the part about the runtime state of the built-in task
C35_BuiltInStateKept ==
    [][LegacyLoadFailed => RuntimeStateKept(UiId)]_vars

\* the legacy module failed to load while the built-in task waited for its
\* retry
C35_LoadFailedDuringBackoff ==
    /\ last.op = "refreshLegacyTasks" /\ last.errored
    /\ running /\ tasks[UiId] # 0
    /\ heap[tasks[UiId]].failureCount = 1

\* the length of a longest common subsequence of two token sequences
RECURSIVE LCS(_, _)
LCS(a, b) ==
    IF a = <<>> \/ b = <<>> THEN 0
    ELSE IF Head(a) = Head(b) THEN 1 + LCS(Tail(a), Tail(b))
    ELSE Max(LCS(Tail(a), b), LCS(a, Tail(b)))

\* the number of chunks of the given types
Count(chunks, types) == Cardinality({i \in DOMAIN chunks : chunks[i].type \in types})

\* C36: the word diff is a shortest edit script: the number of added plus
\* removed tokens is len(A) + len(B) - 2 * LCS(A, B), and no two adjacent
\* chunks of the returned list have the same type.
C36_ShortestScriptMergedChunks ==
    last.op = "myersWordDiff"
    => /\ last.ret = mergeChunks(editScript(last.arg.beforeTokens, last.arg.afterTokens))
       /\ Count(editScript(last.arg.beforeTokens, last.arg.afterTokens), {"add", "del"})
             = Len(last.arg.beforeTokens) + Len(last.arg.afterTokens)
               - 2 * LCS(last.arg.beforeTokens, last.arg.afterTokens)
       /\ TotalChars(last.ret, "add") + TotalChars(last.ret, "del")
             = Len(Concatenated(editScript(last.arg.beforeTokens, last.arg.afterTokens), {"add", "del"}))
       /\ \A i \in 1..(Len(last.ret) - 1) : last.ret[i].type # last.ret[i + 1].type

\* the diff of two sequences with a common token that is not at the same
\* place in both, in which tokens were merged into one chunk
C36_DiffWithSharedTokenMerged ==
    /\ last.op = "myersWordDiff"
    /\ LCS(last.arg.beforeTokens, last.arg.afterTokens) = 1
    /\ Len(last.arg.beforeTokens) = MaxTokens
    /\ Head(last.arg.beforeTokens) # Head(last.arg.afterTokens)
    /\ Len(last.ret) < Len(editScript(last.arg.beforeTokens, last.arg.afterTokens))

\* the Change Records of a task that stand for a report
ReportRecords(id) == {k \in DOMAIN changes : changes[k].taskId = id /\ changes[k].kind = "report"}

\* C37: one change of the page's text from X to Y, the page staying at Y, is
\* reported at most once: later checks add no second Change Record and write
\* no second report, also when persisting the new baseline failed or the
\* registry was rebuilt while the reporting check was in flight.
C37_OneChangeReportedOnce ==
    /\ Cardinality(ReportRecords(UiId)) <= 1
    /\ reports <= 1

\* a check has reported the change and persisting the new baseline failed
C37_ReportedThenSaveFailed ==
    /\ last.op = "save" /\ last.errored
    /\ reports = 1
    /\ Cardinality(ReportRecords(UiId)) = 1

\* the step is a setTasks call that leaves the configuration of the built-in
\* task as it was
UnchangedTaskSaved ==
    /\ last'.op = "setUiTasks"
    /\ uiTasks' = uiTasks
    /\ tasks[UiId] # 0

\* C38: a setTasks call in which the configuration of task T is unchanged
\* does not change when T runs next: the deadline of its pending timer
\* (interval or backoff delay) is the same after the call as before it.
C38_UnchangedTaskKeepsDeadline ==
    [][UnchangedTaskSaved
       => /\ tasks'[UiId] # 0
          /\ heap'[tasks'[UiId]].timer = heap[tasks[UiId]].timer]_vars

\* C38 for an engine that is not running: no timer before, none after
C38_StoppedEngineArmsNothing ==
    [][(UnchangedTaskSaved /\ ~running)
       => /\ tasks'[UiId] # 0
          /\ heap'[tasks'[UiId]].timer = heap[tasks[UiId]].timer]_vars

\* the unchanged task list was saved while the task waited for its retry
C38_SavedDuringBackoff ==
    /\ last.op = "setUiTasks"
    /\ running /\ tasks[UiId] # 0
    /\ heap[tasks[UiId]].failureCount = 1
    /\ heap[tasks[UiId]].timer # "none"

\* the active flag of the registry's task and the running flag of its status
\* entry say whether an execution of the id is in flight
FlagsTellInFlight(id) ==
    tasks[id] # 0
    => /\ heap[tasks[id]].active = (InFlight(id) # {})
       /\ heap[tasks[id]].stRunning = (InFlight(id) # {})

\* C39: in every reachable state a task's active flag and the running flag
\* of its status entry are true exactly when an execution of that task id is
\* in flight, and runningCount is the number of executions in flight.
C39_FlagsAndCountMatchInFlight ==
    /\ \A id \in Ids : FlagsTellInFlight(id)
    /\ runningCount = Len(execs)

\* C39, one direction of the counter: while the engine runs runningCount
\* is never more than the number of executions in flight
C39_RunningCountWhileRunning ==
    running => runningCount <= Len(execs)

\* an execution is in flight and the flags and the counter say so
C39_ExecutionInFlightCounted ==
    /\ Len(execs) = 1
    /\ runningCount = 1
    /\ heap[tasks[execs[1].id]].active

\* C40: in every reachable state the run queue holds no task id twice and
\* queuedIds is exactly the set of the ids in runQueue.
C40_QueueHoldsEachIdOnce ==
    /\ \A i, j \in DOMAIN runQueue : runQueue[i] = runQueue[j] => i = j
    /\ queuedIds = Range(runQueue)

\* two tasks wait in the run queue while the third is being checked
C40_TwoTasksQueued ==
    /\ Len(runQueue) = 2
    /\ Len(execs) = 1
    /\ last.op = "timer"

====
